---- MODULE Spec2Model ----
(***************************************************************************)
(* Model of pos_stream_uploader (src/711withterminaloutput_FINAL_FIXED.py): *)
(* serial readers -> parser_queue -> parser_worker (transaction assembler)  *)
(* -> tx_queue -> dispatcher_worker (payload builders, token, POST, audit). *)
(*                                                                          *)
(* Conventions.                                                             *)
(*  - A Python str the code inspects is a sequence of one-character         *)
(*    strings, so that upper(), lower(), `in` and startswith() are computed.*)
(*  - A Python value that may be None is a sequence of length <= 1:         *)
(*    <<>> is None, <<v>> is v.                                             *)
(*  - A float amount of money is an Int number of mills (1/1000 dollar);    *)
(*    a Decimal quantized to 0.01 is an Int number of cents.  The amounts   *)
(*    the model feeds in are ones whose binary float rounds as their        *)
(*    decimal value does (no inexact ties), see Amounts.                    *)
(***************************************************************************)
EXTENDS Integers, Sequences, FiniteSets, TLC

VARIABLES
  parser_queue,   \* queue.Queue of (port, rec), line 79; each entry also
                  \* carries the frame's serial number on its port
  buffers,        \* buffers[port]: None or the open AssemblyBuffer, line 247
  tx_queue,       \* queue.Queue of transactions, line 78
  dispatcher,     \* the dispatcher thread: "running" or "dead" (uncaught exception)
  posted,         \* the HTTP POSTs issued to the data API, in order
  outcomes,       \* the calls of write_transaction_by_date, in order
  taken,          \* ids of the transactions tx_queue.get() returned, in order
  nframes,        \* number of frames the readers have forwarded
  stream,         \* per port: what the terminal has sent (reader side)
  emitted,        \* per port: what the assembler has emitted
  processed,      \* per port: serial numbers of the frames the parser took, in order
  clock,          \* wall clock (time.time / datetime.now), in seconds
  desc,           \* argument of a map_tender call
  tender,         \* its result (<<>> before the call)
  parser,         \* the parser thread: "running" or "dead" (uncaught exception)
  note,           \* per port: what the terminal's frames ask for, and the
                  \* transactions the assembler emitted for the port
  token_data,     \* _token_data, line 80
  idcalls,        \* the requests made to the identity endpoint, in order
  ser,            \* per port: where its reader thread stands in read_from_port
                  \* (pc) and how many times it has opened the port (opens)
  avail,          \* per port: whether the serial port can be opened and read
  wire            \* per port: the bytes not yet read (bytes), the payloads
                  \* written by log_raw_json (raw), and what the terminal
                  \* framed (sent) in n transmissions

vars == <<parser_queue, buffers, tx_queue, dispatcher, posted, outcomes, taken,
          nframes, stream, emitted, processed, clock, desc, tender,
          parser, note, token_data, idcalls, ser, avail, wire>>

readerVars == <<nframes, stream>>
asmVars == <<buffers, emitted>>
queueVars == <<parser_queue, processed>>
dispVars == <<dispatcher, posted, outcomes, taken>>
pipeVars == <<queueVars, tx_queue, readerVars, asmVars, dispVars, clock>>
tenderVars == <<desc, tender>>
tokenVars == <<token_data, idcalls>>
portVars == <<ser, avail, wire>>

(***************************************************************************)
(* Bounds                                                                   *)
(***************************************************************************)
MaxFrags == 3      \* fragments concatenated into a tender description
MaxFrames == 5     \* frames forwarded by all readers together
MaxQueue == 2      \* frames waiting in parser_queue (the queue itself is unbounded)

(***************************************************************************)
(* Strings                                                                  *)
(***************************************************************************)
LowerAlpha == <<"a","b","c","d","e","f","g","h","i","j","k","l","m",
                "n","o","p","q","r","s","t","u","v","w","x","y","z">>
UpperAlpha == <<"A","B","C","D","E","F","G","H","I","J","K","L","M",
                "N","O","P","Q","R","S","T","U","V","W","X","Y","Z">>

UpperCh(c) ==
  IF \E i \in 1..26 : LowerAlpha[i] = c
  THEN UpperAlpha[CHOOSE i \in 1..26 : LowerAlpha[i] = c]
  ELSE c

LowerCh(c) ==
  IF \E i \in 1..26 : UpperAlpha[i] = c
  THEN LowerAlpha[CHOOSE i \in 1..26 : UpperAlpha[i] = c]
  ELSE c

\* str.upper()
Upper(s) == [i \in 1..Len(s) |-> UpperCh(s[i])]

\* str.lower()
Lower(s) == [i \in 1..Len(s) |-> LowerCh(s[i])]

\* str.startswith(pre)
StartsWith(s, pre) ==
  /\ Len(pre) <= Len(s)
  /\ \A i \in 1..Len(pre) : s[i] = pre[i]

\* `sub in s`
Contains(s, sub) ==
  \E k \in 0..(Len(s) - Len(sub)) :
    \A i \in 1..Len(sub) : s[k + i] = sub[i]

sCASH == <<"C","A","S","H">>
sVISA == <<"V","I","S","A">>
sMASTERCARD == <<"M","A","S","T","E","R","C","A","R","D">>
sAMEX == <<"A","M","E","X">>
sDISCOVER == <<"D","I","S","C","O","V","E","R">>
sDEBIT == <<"D","E","B","I","T">>
sACCTHASH == <<"A","C","C","T","#">>
sACCOUNT == <<"A","C","C","O","U","N","T">>
sPROMO == <<"P","R","O","M","O">>
sDISCOUNT == <<"D","I","S","C","O","U","N","T">>
srefund == <<"r","e","f","u","n","d">>

(***************************************************************************)
(* Tender mapping                                                           *)
(***************************************************************************)
\* a slip: the card brands tried before CASH, ACCOUNT matched anywhere
map_tender_slip(d0) ==
  LET d == Upper(d0) IN
  IF \E x \in {sVISA, sMASTERCARD, sAMEX, sDISCOVER} : Contains(d, x)
    THEN "CreditCard"
  ELSE IF Contains(d, sCASH) THEN "Cash"
  ELSE IF Contains(d, sDEBIT) THEN "DebitCard"
  ELSE IF Contains(d, sACCTHASH) \/ Contains(d, sACCOUNT) THEN "AccountPayment"
  ELSE "Other"

map_tender(d0) ==
  LET d == Upper(d0) IN
  IF Contains(d, sCASH) THEN "Cash"
  ELSE IF \E x \in {sVISA, sMASTERCARD, sAMEX, sDISCOVER} : Contains(d, x)
    THEN "CreditCard"
  ELSE IF Contains(d, sDEBIT) THEN "DebitCard"
  ELSE IF StartsWith(d, sACCTHASH) \/ StartsWith(d, sACCOUNT) THEN "AccountPayment"
  ELSE "Other"

\* Pieces of payment descriptions; "Ca"+"sH" makes CASH across a boundary.
Fragments ==
  { <<"C","a">>, <<"s","H">>, <<"V","i","s","a">>, <<"A","M","E","X">>,
    <<"m","a","s","t","e","r","c","a","r","d">>,
    <<"D","i","s","c","o","v","e","r">>, <<"d","e","b","i","t">>,
    <<"A","c","c","t","#">>, <<"a","c","c","o","u","n","t">>, <<" ">>, <<"0","1">> }

RECURSIVE DescsOf(_)
DescsOf(n) ==
  IF n = 0 THEN { <<>> }
  ELSE LET shorter == DescsOf(n - 1) IN
       shorter \cup { d \o f : d \in shorter, f \in Fragments }

Descs == DescsOf(MaxFrags)

InitTender ==
  /\ desc \in Descs
  /\ tender = <<>>

CallMapTender ==
  /\ tender = <<>>
  /\ tender' = <<map_tender(desc)>>
  /\ UNCHANGED desc


(***************************************************************************)
(* Program constants                                                        *)
(***************************************************************************)
SERIAL_PORTS == {"COM3", "COM4"}
CASH_URL == "v1/CashOperations"
TXN_URL == "v1/Transactions"
REFUND_URL == "v1/Refunds"
STORE == "1001"

(***************************************************************************)
(* Money: float amounts in mills, quantized Decimals in cents               *)
(***************************************************************************)
Abs(x) == IF x < 0 THEN -x ELSE x

\* Decimal(x).quantize(Decimal('0.01'), ROUND_HALF_UP): ties away from zero
quantize(m) == IF m >= 0 THEN (m + 5) \div 10 ELSE -((-m + 5) \div 10)

\* round(x, 2) of a non-negative float: ties (exact in binary) to even
round2(m) ==
  LET q == m \div 10
      r == m % 10
  IN IF r < 5 THEN q
     ELSE IF r > 5 THEN q + 1
     ELSE IF q % 2 = 0 THEN q ELSE q + 1

RECURSIVE SumSeq(_)
SumSeq(s) == IF s = <<>> THEN 0 ELSE Head(s) + SumSeq(Tail(s))

RECURSIVE SelectSeqBy(_, _)
\* [x for x in s if keep[x]] with keep a set of indices
SelectSeqBy(s, keep) ==
  IF s = <<>> THEN <<>>
  ELSE LET n == Len(s)
           front == SelectSeqBy(SubSeq(s, 1, n - 1), keep)
       IN IF n \in keep THEN Append(front, s[n]) ELSE front

(***************************************************************************)
(* Decoding of sub-records (parser_worker lines 276-279, 296-299, 307-310)  *)
(* A raw sub-record is [t |-> "list", v |-> <<e1, ...>>], a single object   *)
(* [t |-> "dict", v |-> e], or a JSON text [t |-> "str", v |-> raw].        *)
(***************************************************************************)
AsList(raw) ==
  LET val == IF raw.t = "str" THEN raw.v ELSE raw   \* json.loads(raw)
  IN IF val.t = "dict" THEN <<val.v>> ELSE val.v    \* isinstance(.., dict)

\* json.loads(raw) raises: the text of a string-encoded sub-record is not JSON
JsonRaises(raw) == raw.t = "str" /\ raw.v.t = "invalid"

\* float(price) / int(quantity) of lines 283-284, float(details) of line 301
\* raise: an entry whose number text does not parse carries the field
\* `unparsable`
NumberRaises(e) == "unparsable" \in DOMAIN e

\* the entries handled before the first one that raises
GoodPrefix(lst) ==
  LET bad == {i \in 1..Len(lst) : NumberRaises(lst[i])}
  IN IF bad = {} THEN lst
     ELSE SubSeq(lst, 1, (CHOOSE i \in bad : \A j \in bad : i <= j) - 1)

\* handling the sub-record raises (no try/except in lines 275-304)
ListRaises(raw) ==
  \/ JsonRaises(raw)
  \/ \E i \in 1..Len(AsList(raw)) : NumberRaises(AsList(raw)[i])

\* one cartChangeTrail event -> buffer entry (lines 281-290)
CartEntry(c) ==
  [ name |-> c.itemName,
    price |-> IF c.price = <<>> THEN 0 ELSE c.price[1],
    quantity |-> IF c.quantity = <<>> THEN 1 ELSE c.quantity[1],
    event |-> IF c.eventType = "voidLineItem" THEN "void" ELSE "add" ]

\* one paymentSummary entry -> payment (lines 301-302); details is the amount
\* text [dollar |-> has a "$", mills |-> its value]
PayEntry(p) == [ amount |-> p.details.mills, tenderType |-> p.description ]

\* str.strip() of blanks
RECURSIVE Strip(_)
Strip(s) ==
  IF s = <<>> THEN s
  ELSE IF Head(s) = " " THEN Strip(Tail(s))
  ELSE IF s[Len(s)] = " " THEN Strip(SubSeq(s, 1, Len(s) - 1))
  ELSE s

\* smap[key] = val on a dict kept in insertion order (a sequence of pairs)
DictPut(m, k, v) ==
  IF \E i \in 1..Len(m) : m[i][1] = k
  THEN [i \in 1..Len(m) |-> IF m[i][1] = k THEN <<k, v>> ELSE m[i]]
  ELSE Append(m, <<k, v>>)

RECURSIVE SummaryMap(_)
\* lines 312-320
SummaryMap(summ) ==
  IF summ = <<>> THEN <<>>
  ELSE LET n == Len(summ)
           e == summ[n]
       IN DictPut(SummaryMap(SubSeq(summ, 1, n - 1)),
                  Strip(Upper(e.description)), e.details.mills)

(***************************************************************************)
(* Timestamps.  A timestamp text is [kind, year, hour]: kind "empty" is '', *)
(* "junk" does not parse, "iso" parses to hour `hour` of a day of `year`.   *)
(* An instant is [year, hour].                                              *)
(***************************************************************************)
UTC_OFFSET == 4
TS_EMPTY == [kind |-> "empty", year |-> 0, hour |-> 0]
NowUtc == [year |-> 2026, hour |-> clock \div 3600]

\* to_utc (lines 114-130)
to_utc(local_ts) ==
  IF local_ts.kind # "iso" THEN NowUtc
  ELSE IF local_ts.year < 2023 THEN NowUtc
  ELSE [year |-> local_ts.year, hour |-> local_ts.hour + UTC_OFFSET]

\* a slip: the moment of processing enters the name that is hashed
generate_guid_stamped(store, terminal, seq, ts_utc) ==
  <<store, terminal, seq, ts_utc, nframes>>

\* generate_guid (lines 133-135): uuid5 of the joined text, kept as the text
generate_guid(store, terminal, seq, ts_utc) == <<store, terminal, seq, ts_utc>>

(***************************************************************************)
(* Records.  rec.get(k) is None (<<>>) or <<value>>.                        *)
(***************************************************************************)
NoRec ==
  [ CMD |-> <<>>, metaData |-> <<>>, cartChangeTrail |-> <<>>,
    paymentSummary |-> <<>>, transactionSummary |-> <<>> ]

EmptyBuffer ==
  [ meta |-> <<>>, items |-> <<>>, voids |-> <<>>, payments |-> <<>>,
    summary_list |-> <<>>, summary_map |-> <<>> ]

\* `buf['meta'] or {}` read with m.get(key, '')
EmptyMeta ==
  [ timeStamp |-> TS_EMPTY, transactionSeqNumber |-> <<>>, terminalNumber |-> "",
    operator |-> "", transactionType |-> <<>> ]

(***************************************************************************)
(* parser_worker (lines 249-355): one action per branch of the loop body    *)
(***************************************************************************)
QHead == Head(parser_queue)

\* a slip: one buffer for all the ports
QPortFirst == "COM3"

QPort == QHead[1]
QRec == QHead[2]
IsCmd(rec, c) == rec.CMD = <<c>>

\* rec.get('CMD') of line 252 raises AttributeError: the record is a JSON
\* value that is not an object (it carries the field `json`)
RecGetRaises(rec) == "json" \in DOMAIN rec

\* a slip: the new entries put in front of the list
ExtendPrepend(lst, more) == more \o lst

\* list.append of each new entry, in order
Extend(lst, more) == lst \o more

\* a slip: the buffer stays in place after its transaction was emitted
AfterEndKeeps(old) == old

\* line 352: buffers[port] = None
AfterEnd(old) == <<>>

\* tx['items'], tx['voids'] and tx['payments'] are the list objects of the
\* buffer (lines 342-344): while that buffer is the one in buffers[port]
\* (entry field `shares`), the in-place appends of lines 291 and 302 are
\* appends to the transaction's lists as well
AppendShared(q, port, adds, vds, pays) ==
  [ i \in 1..Len(q) |->
      IF q[i].port = port /\ q[i].shares
      THEN [q[i] EXCEPT !.tx.items = Extend(@, adds), !.tx.voids = Extend(@, vds),
                        !.tx.payments = Extend(@, pays)]
      ELSE q[i] ]

\* lines 255-262 bind a new dict with new lists to buffers[port]
Unshare(q, port) ==
  [ i \in 1..Len(q) |-> IF q[i].port = port THEN [q[i] EXCEPT !.shares = FALSE] ELSE q[i] ]

\* a slip: the buffer of the port is kept when a bracket starts
FreshBufferKeep(old) == IF old = <<>> THEN EmptyBuffer ELSE old[1]

\* lines 255-262
FreshBuffer(old) == EmptyBuffer

\* the transaction of lines 326-349
MakeTx(buf) ==
  LET m == IF buf.meta = <<>> THEN EmptyMeta ELSE buf.meta[1]
      ts_loc == m.timeStamp
      ts_utc == IF ts_loc.kind # "empty" THEN <<to_utc(ts_loc)>> ELSE <<>>
      seq == m.transactionSeqNumber
      term == m.terminalNumber
  IN [ guid |-> generate_guid(STORE, term, seq, ts_utc),
       ts_local |-> ts_loc, ts_utc |-> ts_utc, store |-> STORE,
       terminal |-> term, seq |-> seq, type |-> m.transactionType,
       items |-> buf.items, voids |-> buf.voids, payments |-> buf.payments,
       transactionSummary |-> buf.summary_list, summary_map |-> buf.summary_map,
       employee_id |-> m.operator, employee_name |-> m.operator,
       location_desc |-> <<"Store", STORE>> ]

\* what the three lists of a transaction hold
Lists(t) == [items |-> t.items, voids |-> t.voids, payments |-> t.payments]

TotalEmitted == emitted["COM3"].n + emitted["COM4"].n

\* bookkeeping of an emission on port p: the bracket it answers is the oldest
\* one the terminal has closed and the assembler has not answered yet
NoteEmission(p, tx) ==
  /\ emitted' = [emitted EXCEPT ![p] =
       [ n |-> @.n + 1, last |-> <<Lists(tx)>>,
         expect |-> IF stream[p].closed = <<>> THEN <<>>
                    ELSE <<Head(stream[p].closed)>> ]]
  /\ stream' = [stream EXCEPT ![p].closed =
       IF @ = <<>> THEN @ ELSE Tail(@)]

\* a slip: the newest entry of the queue is taken first
QueuePutFront(q, x) == <<x>> \o q

\* queue.Queue.put: FIFO
QueuePut(q, x) == Append(q, x)

\* parser_queue.get() of line 251 (and the serial number of the frame taken)
Consume ==
  /\ parser_queue' = Tail(parser_queue)
  /\ processed' = [processed EXCEPT ![QPort] = Append(@, QHead[3])]

HandleStart ==
  /\ parser = "running"
  /\ parser_queue # <<>>
  /\ ~RecGetRaises(QRec)
  /\ IsCmd(QRec, "StartTransaction")
  /\ buffers' = [buffers EXCEPT ![QPort] = <<FreshBuffer(@)>>]
  /\ tx_queue' = Unshare(tx_queue, QPort)
  /\ Consume
  /\ UNCHANGED <<readerVars, emitted, dispVars, clock>>

\* a slip: a record that finds no buffer opens one
DropNoBufferOpens ==
  /\ parser = "running"
  /\ parser_queue # <<>>
  /\ ~RecGetRaises(QRec)
  /\ ~IsCmd(QRec, "StartTransaction")
  /\ buffers[QPort] = <<>>
  /\ buffers' = [buffers EXCEPT ![QPort] = <<EmptyBuffer>>]
  /\ Consume
  /\ UNCHANGED <<tx_queue, readerVars, emitted, dispVars, clock>>

DropNoBuffer ==
  /\ parser = "running"
  /\ parser_queue # <<>>
  /\ ~RecGetRaises(QRec)
  /\ ~IsCmd(QRec, "StartTransaction")
  /\ buffers[QPort] = <<>>
  /\ Consume
  /\ UNCHANGED <<tx_queue, readerVars, asmVars, dispVars, clock>>

\* the guards shared by the branches below line 269
Open ==
  /\ parser = "running"
  /\ parser_queue # <<>>
  /\ ~RecGetRaises(QRec)
  /\ ~IsCmd(QRec, "StartTransaction")
  /\ buffers[QPort] # <<>>

HandleMeta ==
  /\ Open
  /\ QRec.metaData # <<>>
  /\ buffers' = [buffers EXCEPT ![QPort][1].meta = QRec.metaData]
  /\ Consume
  /\ UNCHANGED <<tx_queue, readerVars, emitted, dispVars, clock>>

HandleCart ==
  /\ Open
  /\ QRec.metaData = <<>>
  /\ QRec.cartChangeTrail # <<>>
  /\ ~ListRaises(QRec.cartChangeTrail[1])
  /\ LET trail == AsList(QRec.cartChangeTrail[1])
         entries == [i \in 1..Len(trail) |-> CartEntry(trail[i])]
         adds == SelectSeqBy(entries, {i \in 1..Len(trail) : entries[i].event = "add"})
         vds == SelectSeqBy(entries, {i \in 1..Len(trail) : entries[i].event = "void"})
     IN /\ buffers' = [buffers EXCEPT ![QPort][1].items = Extend(@, adds),
                                      ![QPort][1].voids = Extend(@, vds)]
        /\ tx_queue' = AppendShared(tx_queue, QPort, adds, vds, <<>>)
  /\ Consume
  /\ UNCHANGED <<readerVars, emitted, dispVars, clock>>

HandlePayment ==
  /\ Open
  /\ QRec.metaData = <<>>
  /\ QRec.cartChangeTrail = <<>>
  /\ QRec.paymentSummary # <<>>
  /\ ~ListRaises(QRec.paymentSummary[1])
  /\ LET pays == AsList(QRec.paymentSummary[1])
         entries == [i \in 1..Len(pays) |-> PayEntry(pays[i])]
     IN /\ buffers' = [buffers EXCEPT ![QPort][1].payments = Extend(@, entries)]
        /\ tx_queue' = AppendShared(tx_queue, QPort, <<>>, <<>>, entries)
  /\ Consume
  /\ UNCHANGED <<readerVars, emitted, dispVars, clock>>

\* a slip: the new summary is added to the one the buffer holds
SummaryOfAppends(old, summ) == old \o summ

\* lines 310-320: the list and a map built from an empty dict are bound to
\* the buffer in place of the earlier ones
SummaryOf(old, summ) == summ

HandleSummary ==
  /\ Open
  /\ QRec.metaData = <<>>
  /\ QRec.cartChangeTrail = <<>>
  /\ QRec.paymentSummary = <<>>
  /\ QRec.transactionSummary # <<>>
  /\ ~JsonRaises(QRec.transactionSummary[1])
  /\ LET summ == SummaryOf(buffers[QPort][1].summary_list,
                           AsList(QRec.transactionSummary[1]))
     IN buffers' = [buffers EXCEPT ![QPort][1].summary_list = summ,
                                   ![QPort][1].summary_map = SummaryMap(summ)]
  /\ Consume
  /\ UNCHANGED <<tx_queue, readerVars, emitted, dispVars, clock>>

\* a slip: EndTransaction is looked at whatever else the record carries
NoSubRecordLax(rec) == TRUE

NoSubRecord(rec) ==
  /\ rec.metaData = <<>>
  /\ rec.cartChangeTrail = <<>>
  /\ rec.paymentSummary = <<>>
  /\ rec.transactionSummary = <<>>

HandleEnd ==
  /\ Open
  /\ NoSubRecord(QRec)
  /\ IsCmd(QRec, "EndTransaction")
  /\ LET tx == MakeTx(buffers[QPort][1])
     IN /\ tx_queue' = QueuePut(tx_queue,
             [ id |-> TotalEmitted + 1, tx |-> tx, port |-> QPort,
               shares |-> AfterEnd(buffers[QPort]) # <<>> ])
        /\ NoteEmission(QPort, tx)
  /\ buffers' = [buffers EXCEPT ![QPort] = AfterEnd(@)]
  /\ Consume
  /\ UNCHANGED <<nframes, dispVars, clock>>

IgnoreRecord ==
  /\ Open
  /\ NoSubRecord(QRec)
  /\ ~IsCmd(QRec, "EndTransaction")
  /\ Consume
  /\ UNCHANGED <<tx_queue, readerVars, asmVars, dispVars, clock>>

\* an exception leaves the loop of parser_worker: the record was taken, the
\* entries before the offending one were appended, the thread ends
parser_raises ==
  /\ Open
  /\ QRec.metaData = <<>>
  /\ \/ /\ QRec.cartChangeTrail # <<>>
        /\ ListRaises(QRec.cartChangeTrail[1])
        /\ LET raw == QRec.cartChangeTrail[1]
               trail == IF JsonRaises(raw) THEN <<>> ELSE GoodPrefix(AsList(raw))
               entries == [i \in 1..Len(trail) |-> CartEntry(trail[i])]
               adds == SelectSeqBy(entries, {i \in 1..Len(trail) : entries[i].event = "add"})
               vds == SelectSeqBy(entries, {i \in 1..Len(trail) : entries[i].event = "void"})
           IN /\ buffers' = [buffers EXCEPT ![QPort][1].items = Extend(@, adds),
                                            ![QPort][1].voids = Extend(@, vds)]
              /\ tx_queue' = AppendShared(tx_queue, QPort, adds, vds, <<>>)
     \/ /\ QRec.cartChangeTrail = <<>>
        /\ QRec.paymentSummary # <<>>
        /\ ListRaises(QRec.paymentSummary[1])
        /\ LET raw == QRec.paymentSummary[1]
               pays == IF JsonRaises(raw) THEN <<>> ELSE GoodPrefix(AsList(raw))
               entries == [i \in 1..Len(pays) |-> PayEntry(pays[i])]
           IN /\ buffers' = [buffers EXCEPT ![QPort][1].payments = Extend(@, entries)]
              /\ tx_queue' = AppendShared(tx_queue, QPort, <<>>, <<>>, entries)
     \/ /\ QRec.cartChangeTrail = <<>>
        /\ QRec.paymentSummary = <<>>
        /\ QRec.transactionSummary # <<>>
        /\ JsonRaises(QRec.transactionSummary[1])
        /\ UNCHANGED <<buffers, tx_queue>>
  /\ Consume
  /\ parser' = "dead"
  /\ UNCHANGED <<readerVars, emitted, dispVars, clock>>

\* lines 251-252: the record taken is not a dict, rec.get raises and the
\* thread ends (no try/except in parser_worker)
parser_get_raises ==
  /\ parser = "running"
  /\ parser_queue # <<>>
  /\ RecGetRaises(QRec)
  /\ Consume
  /\ parser' = "dead"
  /\ UNCHANGED <<tx_queue, readerVars, asmVars, dispVars, clock>>

parser_worker ==
  \/ HandleStart
  \/ DropNoBuffer
  \/ HandleMeta
  \/ HandleCart
  \/ HandlePayment
  \/ HandleSummary
  \/ HandleEnd
  \/ IgnoreRecord

(***************************************************************************)
(* Payload builders.  Money in a payload is a float, in mills; a value that *)
(* went through quantize has a multiple of 10 mills.                        *)
(***************************************************************************)
Digits == {"0","1","2","3","4","5","6","7","8","9"}
DigitVal(c) == CHOOSE v \in 0..9 : <<"0","1","2","3","4","5","6","7","8","9">>[v + 1] = c

\* int(s) raises ValueError
IntRaises(s) == \E i \in 1..Len(s) : s[i] \notin Digits

RECURSIVE IntOf(_)
\* int(tx['seq'] or 0)
IntOf(s) ==
  IF s = <<>> THEN 0
  ELSE 10 * IntOf(SubSeq(s, 1, Len(s) - 1)) + DigitVal(s[Len(s)])

\* float(Decimal(x).quantize(Decimal('0.01'), ROUND_HALF_UP))
Q2(m) == 10 * quantize(m)

\* sm.get(key, default)
DictGet(m, k, default) ==
  IF \E i \in 1..Len(m) : m[i][1] = k
  THEN m[CHOOSE i \in 1..Len(m) : m[i][1] = k][2]
  ELSE default

\* next((v for k, v in sm.items() if k.startswith('TAX')), 0.0)
FirstTax(m) ==
  LET hits == {i \in 1..Len(m) : StartsWith(m[i][1], <<"T","A","X">>)}
  IN IF hits = {} THEN 0
     ELSE m[CHOOSE i \in hits : \A j \in hits : i <= j][2]

\* lines 359-383
build_cash_op_payload(tx) ==
  [ model |-> "CashOperation", TransactionType |-> "New",
    Number |-> IntOf(tx.seq), Amount |-> <<0>>, RefundTotal |-> <<>>,
    Order |-> <<>> ]

\* a slip: promotions recognised by the exact name only
IsPromoExact(itm) == itm.name = sPROMO /\ itm.event # "void"

\* lines 402, 408-409
IsPromo(itm) ==
  /\ \/ Contains(Upper(itm.name), sPROMO)
     \/ Contains(Upper(itm.name), sDISCOUNT)
  /\ itm.event # "void"

\* a slip: TOTAL DUE of the summary not read, the total recomputed
TotalDueComputed(sm) ==
  DictGet(sm, <<"S","U","B","T","O","T","A","L">>, 0) + FirstTax(sm)

\* lines 388-390
TotalDue(sm) ==
  DictGet(sm, <<"T","O","T","A","L"," ","D","U","E">>,
          DictGet(sm, <<"S","U","B","T","O","T","A","L">>, 0) + FirstTax(sm))

\* line 394: sum(p['amount'] for p in tx['payments'] if p['amount'] > 0)
Paid(payments) ==
  SumSeq([i \in 1..Len(payments) |->
            IF payments[i].amount > 0 THEN payments[i].amount ELSE 0])

\* a slip: only payments of a positive amount are kept
KeepPaymentPositive(amt) == amt > 0

\* lines 442-444: a payment whose quantized amount is 0 is skipped
KeepPayment(amt) == amt # 0

\* a slip: the change taken from the unrounded difference
ChangeOfDifference(paid, total_due) == Q2(paid - total_due)

\* lines 393-396: paid_d - tot_due, each quantized first
Change(paid, total_due) == Q2(Q2(paid) - Q2(total_due))

\* lines 454-456
OrderState(items, voids) ==
  LET merged == items \o voids
      has_voids == voids # <<>>
      all_voided == has_voids /\ \A i \in 1..Len(merged) : merged[i].event = "void"
  IN IF all_voided THEN "Voided" ELSE "Closed"

\* lines 386-485
build_txn_payload(tx) ==
  LET sm == tx.summary_map
      subtotal == DictGet(sm, <<"S","U","B","T","O","T","A","L">>, 0)
      tax_amt == FirstTax(sm)
      total_due == TotalDue(sm)
      tax_d == Q2(tax_amt)
      paid == Paid(tx.payments)
      change == Change(paid, total_due)
      merged == tx.items \o tx.voids
      promo == {i \in 1..Len(merged) : IsPromo(merged[i])}
      promotions == SelectSeqBy(
        [i \in 1..Len(merged) |->
           [ Value |-> 10 * round2(Abs(merged[i].price * merged[i].quantity)),
             Description |-> merged[i].name, Category |-> "Promotion" ]], promo)
      items_list == SelectSeqBy(
        [i \in 1..Len(merged) |->
           [ name |-> merged[i].name,
             ItemState |-> IF merged[i].event = "void" THEN "Voided" ELSE "Added",
             ItemType |-> IF merged[i].event = "void" THEN "Voided" ELSE "Sale",
             menuProductID |-> <<"PID", tx.seq, i>>,
             ItemPrice |-> Q2(merged[i].price),
             Quantity |-> merged[i].quantity ]], (1..Len(merged)) \ promo)
      nonzero == {i \in 1..Len(tx.payments) : KeepPayment(Q2(tx.payments[i].amount))}
      first == IF nonzero = {} THEN 0 ELSE CHOOSE i \in nonzero : \A j \in nonzero : i <= j
      payments == SelectSeqBy(
        [i \in 1..Len(tx.payments) |->
           [ Status |-> IF Q2(tx.payments[i].amount) >= 0 THEN "Accepted" ELSE "Denied",
             Amount |-> Q2(tx.payments[i].amount),
             Change |-> IF i = first THEN change ELSE 0,
             TenderType |-> map_tender(tx.payments[i].tenderType) ]], nonzero)
  IN [ model |-> "Transaction",
       TransactionType |-> IF tx.voids # <<>> THEN "Update" ELSE "New",
       Number |-> IntOf(tx.seq), Amount |-> <<>>, RefundTotal |-> <<>>,
       Order |-> << [ OrderState |-> OrderState(tx.items, tx.voids),
                      OrderItem |-> items_list,
                      ItemPrice |-> Q2(subtotal),
                      Tax |-> IF tax_d > 0
                              THEN << [amount |-> tax_d, Description |-> "Sales Tax"] >>
                              ELSE <<>>,
                      Discount |-> promotions,
                      OrderItemCount |-> Len(items_list),
                      Payment |-> payments ] >> ]

\* lines 489-537 (Total has no Discount key: an empty list here)
build_refund_payload(tx) ==
  LET items_list ==
        [i \in 1..Len(tx.items) |->
           [ name |-> tx.items[i].name, ItemState |-> "Added", ItemType |-> "Sale",
             menuProductID |-> <<"", tx.seq, i>>,
             ItemPrice |-> Q2(tx.items[i].price),
             Quantity |-> tx.items[i].quantity ]]
      raw_sub == SumSeq([i \in 1..Len(tx.items) |->
                           Q2(tx.items[i].price) * tx.items[i].quantity])
      refund_total == SumSeq([i \in 1..Len(tx.payments) |-> tx.payments[i].amount])
      nonzero == {i \in 1..Len(tx.payments) : tx.payments[i].amount # 0}
      payments == SelectSeqBy(
        [i \in 1..Len(tx.payments) |->
           [ Status |-> "Accepted", Amount |-> tx.payments[i].amount, Change |-> 0,
             TenderType |-> map_tender(tx.payments[i].tenderType) ]], nonzero)
  IN [ model |-> "Refund", TransactionType |-> "New",
       Number |-> IntOf(tx.seq), Amount |-> <<>>, RefundTotal |-> <<refund_total>>,
       Order |-> << [ OrderState |-> "Closed",
                      OrderItem |-> items_list,
                      ItemPrice |-> Q2(raw_sub),
                      Tax |-> <<>>,
                      Discount |-> <<>>,
                      OrderItemCount |-> Len(items_list),
                      Payment |-> payments ] >> ]

(***************************************************************************)
(* dispatcher_worker (lines 541-610): one loop iteration                    *)
(***************************************************************************)
\* a slip: the declared type is tried before the cash-operation test
ChooseRefundFirst(tx) ==
  IF Lower(tx.type) = srefund THEN "refund"
  ELSE IF tx.items = <<>> /\ tx.payments = <<>> THEN "cash"
  ELSE "txn"

\* a slip: the declared type compared as written, without lower()
ChooseCaseSensitive(tx) ==
  IF tx.items = <<>> /\ tx.payments = <<>> THEN "cash"
  ELSE IF tx.type = srefund THEN "refund"
  ELSE "txn"

\* lines 548, 553, 558
Choose(tx) ==
  IF tx.items = <<>> /\ tx.payments = <<>> THEN "cash"
  ELSE IF Lower(tx.type) = srefund THEN "refund"
  ELSE "txn"

UrlOf(branch) ==
  IF branch = "cash" THEN CASH_URL
  ELSE IF branch = "refund" THEN REFUND_URL
  ELSE TXN_URL

PayloadOf(tx) ==
  LET branch == Choose(tx)
  IN IF branch = "cash" THEN build_cash_op_payload(tx)
     ELSE IF branch = "refund" THEN build_refund_payload(tx)
     ELSE build_txn_payload(tx)

\* the payload is built outside the try: int(tx['seq'] or 0) may raise
BuildRaises(tx) == IntRaises(tx.seq)

\* write_transaction_by_date (lines 154-171): `y, m, d = date.split('-')`
\* raises when ts_utc is ''
WriteRaises(tx) == tx.ts_utc = <<>>

TOKEN_MARGIN == 60
DEFAULT_EXPIRES_IN == 3600

\* what the identity endpoint may answer to fetch_token (lines 94-105): an
\* error (exception, HTTP error status, no access_token) or a token
IdentityAnswers ==
  { [ok |-> FALSE, expires_in |-> 0],
    [ok |-> TRUE, expires_in |-> DEFAULT_EXPIRES_IN] }

\* what requests.post to the data API may do (line 591): raise, or answer
PostAnswers ==
  { [exc |-> TRUE, status |-> 0],
    [exc |-> FALSE, status |-> 202],
    [exc |-> FALSE, status |-> 500] }

\* a slip: the margin is forgotten
CachedTokenValidNoMargin ==
  token_data.access_token /\ token_data.expires_at > clock

\* fetch_token, lines 92-94: the cached token is returned
CachedTokenValid ==
  token_data.access_token /\ (token_data.expires_at - TOKEN_MARGIN) > clock

\* a slip: a failed delivery is put back on the queue
RestAfterFailure(q, item, success) == IF success THEN Tail(q) ELSE Append(Tail(q), item)

\* tx_queue after the get() of line 543
Rest(q, item, success) == Tail(q)

dispatcher_worker ==
  /\ dispatcher = "running"
  /\ tx_queue # <<>>
  /\ LET item == Head(tx_queue)
         tx == item.tx
     IN /\ taken' = Append(taken, item.id)
        /\ IF BuildRaises(tx)
           THEN /\ dispatcher' = "dead"
                /\ tx_queue' = Tail(tx_queue)
                /\ UNCHANGED <<posted, outcomes, tokenVars>>
           ELSE \E a \in IdentityAnswers, r \in PostAnswers :
                  LET cached == CachedTokenValid
                      token == cached \/ a.ok
                      answered == token /\ ~r.exc
                      status_code == IF answered THEN r.status ELSE 0
                      body == IF answered THEN "resp.text" ELSE "str(e)"
                      success == 200 <= status_code /\ status_code < 300
                  IN /\ token_data' =
                          IF ~cached /\ a.ok
                          THEN [ access_token |-> TRUE,
                                 expires_at |-> clock + a.expires_in ]
                          ELSE token_data
                     /\ idcalls' = IF cached THEN idcalls
                                   ELSE Append(idcalls, [id |-> item.id, ok |-> a.ok])
                     /\ posted' = IF token
                                  THEN Append(posted,
                                         [ id |-> item.id, tx |-> tx,
                                           url |-> UrlOf(Choose(tx)),
                                           payload |-> PayloadOf(tx),
                                           answer |-> r ])
                                  ELSE posted
                     /\ tx_queue' = Rest(tx_queue, item, success)
                     /\ IF WriteRaises(tx)
                        THEN /\ dispatcher' = "dead"
                             /\ UNCHANGED outcomes
                        ELSE /\ outcomes' = Append(outcomes,
                                    [ id |-> item.id, success |-> success,
                                      status_code |-> status_code, body |-> body ])
                             /\ UNCHANGED dispatcher
  /\ UNCHANGED <<queueVars, readerVars, asmVars, clock>>

(***************************************************************************)
(* The terminal: the frames it sends, each with the line events and         *)
(* payments it stands for (written out by hand, not computed by the model). *)
(***************************************************************************)
nMilk == <<"M","i","l","k">>
nGum == <<"G","u","m">>
nPromoX == <<"P","r","o","m","o"," ","X">>
dCash == <<"C","a","s","h">>
Amt(m) == [dollar |-> TRUE, mills |-> m]
TS_2025 == [kind |-> "iso", year |-> 2025, hour |-> 10]

MetaSale ==
  [ timeStamp |-> TS_2025, transactionSeqNumber |-> <<"4","2">>,
    terminalNumber |-> "02", operator |-> "OP15", transactionType |-> <<"S","a","l","e">> ]

evMilk == [eventType |-> "addLineItem", itemName |-> nMilk, price |-> <<1890>>, quantity |-> <<>>]
evGumVoid == [eventType |-> "voidLineItem", itemName |-> nGum, price |-> <<500>>, quantity |-> <<2>>]
evPromo == [eventType |-> "addLineItem", itemName |-> nPromoX, price |-> <<>>, quantity |-> <<1>>]
payCash == [details |-> Amt(5000), description |-> dCash]

NoLists == [items |-> <<>>, voids |-> <<>>, payments |-> <<>>]

Traffic ==
  { [ kind |-> "start", rec |-> [NoRec EXCEPT !.CMD = <<"StartTransaction">>],
      adds |-> NoLists ],
    [ kind |-> "end", rec |-> [NoRec EXCEPT !.CMD = <<"EndTransaction">>],
      adds |-> NoLists ],
    [ kind |-> "body", rec |-> [NoRec EXCEPT !.CMD = <<"Heartbeat">>],
      adds |-> NoLists ],
    [ kind |-> "body", rec |-> [NoRec EXCEPT !.metaData = <<MetaSale>>],
      adds |-> NoLists ],
    [ kind |-> "body",
      rec |-> [NoRec EXCEPT !.cartChangeTrail = <<[t |-> "dict", v |-> evMilk]>>],
      adds |-> [NoLists EXCEPT !.items =
        << [name |-> nMilk, price |-> 1890, quantity |-> 1, event |-> "add"] >>] ],
    [ kind |-> "body",
      rec |-> [NoRec EXCEPT !.cartChangeTrail =
        <<[t |-> "str", v |-> [t |-> "list", v |-> <<evGumVoid, evPromo>>]]>>],
      adds |-> [NoLists EXCEPT
        !.voids = << [name |-> nGum, price |-> 500, quantity |-> 2, event |-> "void"] >>,
        !.items = << [name |-> nPromoX, price |-> 0, quantity |-> 1, event |-> "add"] >>] ],
    [ kind |-> "body",
      rec |-> [NoRec EXCEPT !.paymentSummary = <<[t |-> "list", v |-> <<payCash>>]>>],
      adds |-> [NoLists EXCEPT !.payments =
        << [amount |-> 5000, tenderType |-> dCash] >>] ],
    [ kind |-> "body",
      rec |-> [NoRec EXCEPT !.transactionSummary =
        <<[t |-> "list", v |->
            << [description |-> <<"S","u","b","t","o","t","a","l"," ">>, details |-> Amt(1890)],
               [description |-> <<"T","a","x">>, details |-> Amt(110)] >>]>>],
      adds |-> NoLists ] }

\* the terminal's side of a port after it sent frame f: whether a bracket is
\* open, whether the stream so far is a series of well-formed brackets, what
\* the open bracket holds, and the closed brackets not answered yet
Sent(s, f) ==
  IF f.kind = "start"
  THEN [s EXCEPT !.sent = @ + 1, !.open = TRUE, !.wf = @ /\ ~s.open, !.cur = NoLists]
  ELSE IF ~s.open THEN [s EXCEPT !.sent = @ + 1, !.wf = FALSE]
  ELSE IF f.kind = "end"
  THEN [s EXCEPT !.sent = @ + 1, !.open = FALSE, !.closed = Append(@, s.cur), !.n = @ + 1]
  ELSE [s EXCEPT !.sent = @ + 1,
                 !.cur = [ items |-> @.items \o f.adds.items,
                           voids |-> @.voids \o f.adds.voids,
                           payments |-> @.payments \o f.adds.payments ]]

\* read_from_port (lines 204-243): a frame that parsed is forwarded (line 235)
read_from_port(port) ==
  /\ nframes < MaxFrames
  /\ Len(parser_queue) < MaxQueue
  /\ \E f \in Traffic :
       /\ parser_queue' = QueuePut(parser_queue, <<port, f.rec, stream[port].sent + 1>>)
       /\ stream' = [stream EXCEPT ![port] = Sent(@, f)]
  /\ UNCHANGED processed
  /\ nframes' = nframes + 1
  /\ UNCHANGED <<tx_queue, asmVars, dispVars, clock>>

(***************************************************************************)
(* The pipeline                                                             *)
(***************************************************************************)
\* nothing received, logged or sent on a port
WireInit == [bytes |-> <<>>, raw |-> <<>>, sent |-> <<>>, n |-> 0]

\* nothing asked for and nothing emitted yet on a port
NoteInit ==
  [ sent |-> 0, open |-> FALSE, cur |-> EmptyBuffer, want |-> <<>>, made |-> <<>>,
    restarts |-> 0, strays |-> {}, multi |-> 0, lost |-> <<>>, resum |-> 0 ]

\* parser thread started, no token cached (line 80), ports open and readers
\* listening
InitThreads ==
  /\ parser = "running"
  /\ note = [p \in SERIAL_PORTS |-> NoteInit]
  /\ token_data = [access_token |-> FALSE, expires_at |-> 0]
  /\ idcalls = <<>>

InitSide ==
  /\ InitThreads
  /\ ser = [p \in SERIAL_PORTS |-> [pc |-> "listening", opens |-> 1]]
  /\ avail = [p \in SERIAL_PORTS |-> TRUE]
  /\ wire = [p \in SERIAL_PORTS |-> WireInit]

\* the queues are empty, no bracket is open, nothing was delivered
InitQueues ==
  /\ parser_queue = <<>>
  /\ tx_queue = <<>>
  /\ buffers = [p \in SERIAL_PORTS |-> <<>>]
  /\ dispatcher = "running"
  /\ posted = <<>>
  /\ outcomes = <<>>
  /\ taken = <<>>
  /\ nframes = 0
  /\ stream = [p \in SERIAL_PORTS |->
                 [ sent |-> 0, open |-> FALSE, wf |-> TRUE, cur |-> NoLists,
                   closed |-> <<>>, n |-> 0 ]]
  /\ processed = [p \in SERIAL_PORTS |-> <<>>]
  /\ emitted = [p \in SERIAL_PORTS |-> [n |-> 0, last |-> <<>>, expect |-> <<>>]]
  /\ clock = 0

InitPipe ==
  /\ InitSide
  /\ InitQueues

Init ==
  /\ InitPipe
  /\ desc = <<>>
  /\ tender = <<>>

Next ==
  \/ \E port \in SERIAL_PORTS :
       read_from_port(port) /\ UNCHANGED <<tenderVars, parser, note, tokenVars, portVars>>
  \/ parser_worker /\ UNCHANGED <<tenderVars, parser, note, tokenVars, portVars>>
  \/ dispatcher_worker /\ UNCHANGED <<tenderVars, parser, note, portVars>>

Spec == Init /\ [][Next]_vars

(***************************************************************************)
(* The assembler on its own: the readers forward frames of every kind the   *)
(* parser distinguishes, among them records with several fields and records *)
(* that do not decode.  `does` is what the frame asks of the assembler      *)
(* (written out by hand): the one field that counts and what it carries.    *)
(***************************************************************************)
NoDoes ==
  [ kind |-> "none", meta |-> <<>>, items |-> <<>>, voids |-> <<>>,
    payments |-> <<>>, summary |-> <<>> ]

lnMilk == [name |-> nMilk, price |-> 1890, quantity |-> 1, event |-> "add"]
lnGum == [name |-> nGum, price |-> 500, quantity |-> 2, event |-> "void"]
lnPromoX == [name |-> nPromoX, price |-> 0, quantity |-> 1, event |-> "add"]
pyCash == [amount |-> 5000, tenderType |-> dCash]
smSale ==
  << [description |-> <<"S","u","b","t","o","t","a","l"," ">>, details |-> Amt(1890)],
     [description |-> <<"T","a","x">>, details |-> Amt(110)] >>

\* a summary sent as a single object
smDue == [description |-> <<"T","o","t","a","l"," ","D","u","e">>, details |-> Amt(2000)]

\* an event whose price text is not a number
evBadPrice ==
  [ eventType |-> "addLineItem", itemName |-> nGum, price |-> <<>>,
    quantity |-> <<>>, unparsable |-> "price" ]

recStart == [NoRec EXCEPT !.CMD = <<"StartTransaction">>]
recEnd == [NoRec EXCEPT !.CMD = <<"EndTransaction">>]

PlainFrames ==
  { [ rec |-> recStart, does |-> [NoDoes EXCEPT !.kind = "start"] ],
    [ rec |-> recEnd, does |-> [NoDoes EXCEPT !.kind = "end"] ],
    [ rec |-> [NoRec EXCEPT !.CMD = <<"Heartbeat">>], does |-> NoDoes ],
    [ rec |-> [NoRec EXCEPT !.metaData = <<MetaSale>>],
      does |-> [NoDoes EXCEPT !.kind = "meta", !.meta = <<MetaSale>>] ],
    [ rec |-> [NoRec EXCEPT !.cartChangeTrail = <<[t |-> "dict", v |-> evMilk]>>],
      does |-> [NoDoes EXCEPT !.kind = "cart", !.items = <<lnMilk>>] ],
    [ rec |-> [NoRec EXCEPT !.cartChangeTrail =
        <<[t |-> "str", v |-> [t |-> "list", v |-> <<evGumVoid, evPromo>>]]>>],
      does |-> [NoDoes EXCEPT !.kind = "cart", !.voids = <<lnGum>>,
                              !.items = <<lnPromoX>>] ],
    [ rec |-> [NoRec EXCEPT !.paymentSummary = <<[t |-> "list", v |-> <<payCash>>]>>],
      does |-> [NoDoes EXCEPT !.kind = "pay", !.payments = <<pyCash>>] ],
    [ rec |-> [NoRec EXCEPT !.transactionSummary = <<[t |-> "list", v |-> smSale]>>],
      does |-> [NoDoes EXCEPT !.kind = "summary", !.summary = smSale] ],
    [ rec |-> [NoRec EXCEPT !.transactionSummary = <<[t |-> "dict", v |-> smDue]>>],
      does |-> [NoDoes EXCEPT !.kind = "summary", !.summary = <<smDue>>] ] }

\* records with several recognised fields: the first in the order of the
\* tests of lines 254-325 is the one that counts
MultiFrames ==
  { [ rec |-> [recEnd EXCEPT !.metaData = <<MetaSale>>],
      does |-> [NoDoes EXCEPT !.kind = "meta", !.meta = <<MetaSale>>] ],
    [ rec |-> [NoRec EXCEPT !.cartChangeTrail = <<[t |-> "dict", v |-> evMilk]>>,
                            !.paymentSummary = <<[t |-> "list", v |-> <<payCash>>]>>],
      does |-> [NoDoes EXCEPT !.kind = "cart", !.items = <<lnMilk>>] ] }

\* records that do not decode; the assembler is to drop them
BadFrames ==
  { [ rec |-> [NoRec EXCEPT !.cartChangeTrail =
        <<[t |-> "list", v |-> <<evMilk, evBadPrice>>]>>],
      does |-> NoDoes ],
    [ rec |-> [NoRec EXCEPT !.paymentSummary =
        <<[t |-> "str", v |-> [t |-> "invalid", v |-> <<>>]]>>],
      does |-> NoDoes ] }

Frames == PlainFrames \cup MultiFrames \cup BadFrames

\* what each port's terminal sends: every kind of frame on the first port,
\* plain brackets of one item on the others
FramesOf(port) ==
  IF port = "COM3" THEN Frames
  ELSE {f \in PlainFrames : f.does.kind \in {"start", "end"} \/ f.does.items = <<lnMilk>>}

\* the number of recognised fields of a record
FieldCount(rec) ==
  (IF rec.CMD \in {<<"StartTransaction">>, <<"EndTransaction">>} THEN 1 ELSE 0)
  + (IF rec.metaData # <<>> THEN 1 ELSE 0)
  + (IF rec.cartChangeTrail # <<>> THEN 1 ELSE 0)
  + (IF rec.paymentSummary # <<>> THEN 1 ELSE 0)
  + (IF rec.transactionSummary # <<>> THEN 1 ELSE 0)

\* the terminal's side of a port after frame f: the bracket that is open and
\* what it holds, the brackets closed, those abandoned by a new start, and
\* the kinds (end or other) of the frames sent outside a bracket
Asked(n, f) ==
  LET d == f.does
      m == [n EXCEPT !.sent = @ + 1,
                     !.multi = @ + (IF FieldCount(f.rec) > 1 THEN 1 ELSE 0)]
  IN IF d.kind = "start"
     THEN [m EXCEPT !.open = TRUE, !.cur = EmptyBuffer,
                    !.restarts = @ + (IF n.open THEN 1 ELSE 0),
                    !.lost = IF n.open THEN Append(@, n.cur) ELSE @]
     ELSE IF ~n.open
     THEN [m EXCEPT !.strays = @ \cup {IF d.kind = "end" THEN "end" ELSE "other"}]
     ELSE IF d.kind = "end"
     THEN [m EXCEPT !.open = FALSE, !.cur = EmptyBuffer, !.want = Append(@, n.cur)]
     ELSE IF d.kind = "meta" THEN [m EXCEPT !.cur.meta = d.meta]
     ELSE IF d.kind = "cart"
     THEN [m EXCEPT !.cur.items = @ \o d.items, !.cur.voids = @ \o d.voids]
     ELSE IF d.kind = "pay" THEN [m EXCEPT !.cur.payments = @ \o d.payments]
     ELSE IF d.kind = "summary"
     THEN [m EXCEPT !.cur.summary_list = d.summary,
                    !.cur.summary_map = SummaryMap(d.summary),
                    !.resum = IF n.cur.summary_list # <<>> THEN 1 ELSE @]
     ELSE m

\* read_from_port (lines 204-243) forwarding any of Frames (line 235)
read_any_from_port(port) ==
  /\ nframes < MaxFrames
  /\ Len(parser_queue) < MaxQueue
  /\ \E f \in FramesOf(port) :
       /\ parser_queue' = QueuePut(parser_queue, <<port, f.rec, note[port].sent + 1>>)
       /\ note' = [note EXCEPT ![port] = Asked(@, f)]
  /\ nframes' = nframes + 1
  /\ UNCHANGED <<processed, stream, tx_queue, asmVars, dispVars, clock>>

\* the transaction put on tx_queue by this step, if any, noted for its port
NoteMade ==
  note' = IF Len(tx_queue') > Len(tx_queue)
          THEN [note EXCEPT ![QPort].made = Append(@, tx_queue'[Len(tx_queue')].tx)]
          ELSE note

\* one iteration of the parser thread
AsmStep ==
  \/ parser_worker /\ NoteMade /\ UNCHANGED <<tenderVars, parser, tokenVars, portVars>>
  \/ parser_raises /\ UNCHANGED <<tenderVars, note, tokenVars, portVars>>

NextAsm ==
  \/ \E port \in SERIAL_PORTS :
       read_any_from_port(port) /\ UNCHANGED <<tenderVars, parser, tokenVars, portVars>>
  \/ AsmStep

\* the parser thread is scheduled whenever parser_queue holds a record
SpecAsm == Init /\ [][NextAsm]_vars /\ WF_vars(AsmStep)

(***************************************************************************)
(* map_tender on its own: the description is drawn, then classified         *)
(***************************************************************************)
NextTender == CallMapTender /\ UNCHANGED <<pipeVars, parser, note, tokenVars, portVars>>

InitTenderPipe == InitPipe /\ InitTender

SpecTender == InitTenderPipe /\ [][NextTender]_vars

(***************************************************************************)
(* The dispatcher on its own: tx_queue starts with one transaction that the *)
(* assembler can emit (MakeTx of a buffer drawn from BufferInputs).         *)
(***************************************************************************)
MaxItems == 1      \* line events in the items list of a drawn buffer
MaxPays == 2       \* payments of a drawn buffer

nBanana == <<"D","M"," ","B","a","n","a","n","a","2","4","c","t">>
nCasino == <<"B","&","M"," ","P","T"," ","C","a","s","i","n","o"," ","N","I","C","E"," ","U","p","r","t">>
nPromoTwo == <<"P","R","O","M","O"," ","2">>
nPromoEvd == <<"P","R","O","M","O"," ","E","V","D"," ","B","a","n","a","n","a","s">>
nDisc == <<"1","0","%"," ","d","i","s","c","o","u","n","t">>
dVisa == <<"V","I","S","A"," ","1","2","3","4">>
dDebit == <<"D","e","b","i","t">>

Line(nm, pr, qt, ev) == [name |-> nm, price |-> pr, quantity |-> qt, event |-> ev]
Pay(amt, d) == [amount |-> amt, tenderType |-> d]

\* amounts whose float rounds as the decimal does: no tie but 0.125, which is
\* exact in binary
ItemPool ==
  { Line(nBanana, 890, 2, "add"), Line(nPromoEvd, 780, 1, "add"),
    Line(nDisc, 125, 1, "add") }
PayPool == { Pay(5000, dCash), Pay(5004, dVisa), Pay(0, dCash), Pay(-2000, dDebit) }

RECURSIVE SeqsUpTo(_, _)
SeqsUpTo(S, n) ==
  IF n = 0 THEN { <<>> }
  ELSE LET shorter == SeqsUpTo(S, n - 1) IN
       shorter \cup { Append(q, x) : q \in shorter, x \in S }

\* the items lists drawn: all up to MaxItems, and two with several promotions
ItemInputs ==
  SeqsUpTo(ItemPool, MaxItems)
  \cup { << Line(nPromoEvd, 780, 1, "add"), Line(nBanana, 890, 2, "add"),
            Line(nPromoTwo, 125, 1, "add") >>,
         << Line(nDisc, 125, 1, "add"), Line(nPromoEvd, 780, 1, "add") >> }

VoidInputs ==
  { <<>>, << Line(nGum, 500, 2, "void") >>,
    << Line(nGum, 500, 2, "void"), Line(nPromoEvd, 780, 1, "void") >> }

kSUBTOTAL == <<"S","U","B","T","O","T","A","L">>
kTAX == <<"T","A","X">>
kTOTALDUE == <<"T","O","T","A","L"," ","D","U","E">>
Entry(d, m) == [description |-> d, details |-> Amt(m)]

SummaryInputs ==
  { <<>>,
    << Entry(kSUBTOTAL, 3510), Entry(kTAX, 110), Entry(kTOTALDUE, 2840) >>,
    << Entry(kSUBTOTAL, 2736), Entry(kTAX, 110) >>,
    << Entry(kTOTALDUE, 5000) >> }

MetaInputs ==
  { <<>>, <<MetaSale>>,
    <<[MetaSale EXCEPT !.transactionType = <<"R","E","F","U","N","D">>]>> }

\* a bracket whose sequence number is not a number
BufferBadSeq ==
  [ meta |-> <<[MetaSale EXCEPT !.transactionSeqNumber = <<"A","7">>]>>,
    items |-> << Line(nBanana, 890, 2, "add") >>, voids |-> <<>>,
    payments |-> << Pay(5000, dCash) >>, summary_list |-> <<>>, summary_map |-> <<>> ]

\* the bracket of transaction 0877 (src/testtransaction4215.py, lines 26-34)
Buffer0877(m) ==
  [ meta |-> m,
    items |-> << Line(nBanana, 890, 2, "add"), Line(nCasino, 1730, 1, "add"),
                 Line(nPromoEvd, 780, 1, "add") >>,
    voids |-> <<>>,
    payments |-> << Pay(5000, dCash) >>,
    summary_list |-> << Entry(kSUBTOTAL, 3510), Entry(kTAX, 110), Entry(kTOTALDUE, 2840) >>,
    summary_map |-> SummaryMap(
      << Entry(kSUBTOTAL, 3510), Entry(kTAX, 110), Entry(kTOTALDUE, 2840) >>) ]

\* a bracket with payments of less than half a cent, a card payment and a
\* negative one
BufferSmallPays ==
  [ meta |-> <<MetaSale>>,
    items |-> << Line(nBanana, 890, 2, "add") >>, voids |-> <<>>,
    payments |-> << Pay(4, dCash), Pay(5000, dVisa), Pay(-4, dCash), Pay(-2000, dDebit) >>,
    summary_list |-> << Entry(kTOTALDUE, 3000) >>,
    summary_map |-> SummaryMap(<< Entry(kTOTALDUE, 3000) >>) ]

\* a bracket whose summary carries a negative tax and no TOTAL DUE
BufferNegTax ==
  [ meta |-> <<MetaSale>>,
    items |-> << Line(nBanana, 890, 2, "add") >>, voids |-> <<>>,
    payments |-> << Pay(5000, dCash) >>,
    summary_list |-> << Entry(kSUBTOTAL, 2736), Entry(kTAX, -110) >>,
    summary_map |-> SummaryMap(<< Entry(kSUBTOTAL, 2736), Entry(kTAX, -110) >>) ]

BufferInputs ==
  { [ meta |-> m, items |-> it, voids |-> vd, payments |-> py,
      summary_list |-> sl, summary_map |-> SummaryMap(sl) ] :
      m \in MetaInputs, it \in ItemInputs, vd \in VoidInputs,
      py \in SeqsUpTo(PayPool, MaxPays), sl \in SummaryInputs }
  \cup { Buffer0877(m) : m \in MetaInputs } \cup { BufferBadSeq, BufferSmallPays, BufferNegTax }

InitPayload ==
  /\ InitSide
  /\ parser_queue = <<>>
  /\ \E buf \in BufferInputs : tx_queue = << [id |-> 1, tx |-> MakeTx(buf)] >>
  /\ buffers = [p \in SERIAL_PORTS |-> <<>>]
  /\ dispatcher = "running"
  /\ posted = <<>>
  /\ outcomes = <<>>
  /\ taken = <<>>
  /\ nframes = 0
  /\ stream = [p \in SERIAL_PORTS |->
                 [ sent |-> 0, open |-> FALSE, wf |-> TRUE, cur |-> NoLists,
                   closed |-> <<>>, n |-> 0 ]]
  /\ processed = [p \in SERIAL_PORTS |-> <<>>]
  /\ emitted = [p \in SERIAL_PORTS |-> [n |-> 0, last |-> <<>>, expect |-> <<>>]]
  /\ clock = 0
  /\ desc = <<>>
  /\ tender = <<>>

NextPayload == dispatcher_worker /\ UNCHANGED <<tenderVars, parser, note, portVars>>

SpecPayload == InitPayload /\ [][NextPayload]_vars

(***************************************************************************)
(* The dispatcher on a queue of several transactions, with the clock        *)
(* running: the token cache, the delivery faults, the audit record.         *)
(***************************************************************************)
MaxDeliveries == 3   \* transactions waiting in tx_queue at the start
TickStep == 1770     \* seconds the clock advances at a time
MaxClock == 3540     \* the clock stops advancing here

\* a sale with its metaData, the same bracket without any metaData record,
\* and a bracket whose sequence number is not a number
DeliveryInputs ==
  { MakeTx(Buffer0877(<<MetaSale>>)), MakeTx(Buffer0877(<<>>)), MakeTx(BufferBadSeq) }

DeliveryQueues ==
  UNION { [1..n -> DeliveryInputs] : n \in 1..MaxDeliveries }

InitDelivery ==
  /\ InitSide
  /\ parser_queue = <<>>
  /\ \E q \in DeliveryQueues :
       tx_queue = [k \in 1..Len(q) |-> [id |-> k, tx |-> q[k]]]
  /\ buffers = [p \in SERIAL_PORTS |-> <<>>]
  /\ dispatcher = "running"
  /\ posted = <<>>
  /\ outcomes = <<>>
  /\ taken = <<>>
  /\ nframes = 0
  /\ stream = [p \in SERIAL_PORTS |->
                 [ sent |-> 0, open |-> FALSE, wf |-> TRUE, cur |-> NoLists,
                   closed |-> <<>>, n |-> 0 ]]
  /\ processed = [p \in SERIAL_PORTS |-> <<>>]
  /\ emitted = [p \in SERIAL_PORTS |-> [n |-> 0, last |-> <<>>, expect |-> <<>>]]
  /\ clock = 0
  /\ desc = <<>>
  /\ tender = <<>>

\* time passes (time.time(), line 92)
Tick ==
  /\ clock < MaxClock
  /\ clock' = clock + TickStep
  /\ UNCHANGED <<queueVars, tx_queue, readerVars, asmVars, dispVars, tokenVars>>

DispatchStep == dispatcher_worker /\ UNCHANGED <<tenderVars, parser, note, portVars>>

NextDelivery ==
  \/ DispatchStep
  \/ Tick /\ UNCHANGED <<tenderVars, parser, note, portVars>>

\* the dispatcher thread is scheduled again and again, and every HTTP call
\* returns or times out (timeout=10, lines 101 and 591)
SpecDelivery == InitDelivery /\ [][NextDelivery]_vars /\ WF_vars(DispatchStep)

(***************************************************************************)
(* The port readers with ports that fail and come back (lines 204-243).     *)
(* pc: "opening" (lines 205-216), "listening" (218-235), "sleeping" (the    *)
(* except block, 236-238), "closing" (the finally block, 239-243).          *)
(***************************************************************************)
MaxOpens == 2     \* a port stops failing once its reader opened it this often
MaxReads == 1     \* frames the readers forward while ports fail

\* a slip: the handler does not cover the error and the thread ends
OnExceptionStops(port) == "dead"

\* line 236: `except Exception` covers serial.Serial, readline and read
OnException(port) == "sleeping"

\* serial.Serial(...), lines 208-216
OpenPort(port) ==
  /\ ser[port].pc = "opening"
  /\ ser' = [ser EXCEPT ![port] =
               IF avail[port]
               THEN [pc |-> "listening", opens |-> @.opens + 1]
               ELSE [@ EXCEPT !.pc = OnException(port)]]
  /\ UNCHANGED <<avail, wire, pipeVars, tenderVars, parser, note, tokenVars>>

\* ser.readline() or ser.read(length) raises, lines 219 and 224
ReadFails(port) ==
  /\ ser[port].pc = "listening"
  /\ ~avail[port]
  /\ ser' = [ser EXCEPT ![port].pc = OnException(port)]
  /\ UNCHANGED <<avail, wire, pipeVars, tenderVars, parser, note, tokenVars>>

\* time.sleep(5) returns, line 238
Backoff(port) ==
  /\ ser[port].pc = "sleeping"
  /\ ser' = [ser EXCEPT ![port].pc = "closing"]
  /\ UNCHANGED <<avail, wire, pipeVars, tenderVars, parser, note, tokenVars>>

\* ser.close() with whatever it raises swallowed (lines 239-243), and the
\* outer loop starts over (line 205)
ClosePort(port) ==
  /\ ser[port].pc = "closing"
  /\ ser' = [ser EXCEPT ![port].pc = "opening"]
  /\ UNCHANGED <<avail, wire, pipeVars, tenderVars, parser, note, tokenVars>>

\* a frame is read and forwarded, lines 219-235
ReadFrame(port) ==
  /\ ser[port].pc = "listening"
  /\ avail[port]
  /\ nframes < MaxReads
  /\ read_from_port(port)
  /\ UNCHANGED <<tenderVars, parser, note, tokenVars, portVars>>

\* the environment: the port vanishes (cable, driver) and comes back
PortDown(port) ==
  /\ avail[port]
  /\ ser[port].opens < MaxOpens
  /\ avail' = [avail EXCEPT ![port] = FALSE]
  /\ UNCHANGED <<ser, wire, pipeVars, tenderVars, parser, note, tokenVars>>

PortUp(port) ==
  /\ ~avail[port]
  /\ avail' = [avail EXCEPT ![port] = TRUE]
  /\ UNCHANGED <<ser, wire, pipeVars, tenderVars, parser, note, tokenVars>>

\* the threads were just started (lines 617-619)
InitReader ==
  /\ InitThreads
  /\ InitQueues
  /\ ser = [p \in SERIAL_PORTS |-> [pc |-> "opening", opens |-> 0]]
  /\ avail \in [SERIAL_PORTS -> BOOLEAN]
  /\ wire = [p \in SERIAL_PORTS |-> WireInit]
  /\ desc = <<>>
  /\ tender = <<>>

ReaderStep(port) ==
  OpenPort(port) \/ ReadFails(port) \/ Backoff(port) \/ ClosePort(port)

NextReader ==
  \/ \E port \in SERIAL_PORTS : OpenPort(port)
  \/ \E port \in SERIAL_PORTS : ReadFails(port)
  \/ \E port \in SERIAL_PORTS : Backoff(port)
  \/ \E port \in SERIAL_PORTS : ClosePort(port)
  \/ \E port \in SERIAL_PORTS : ReadFrame(port)
  \/ \E port \in SERIAL_PORTS : PortDown(port)
  \/ \E port \in SERIAL_PORTS : PortUp(port)

\* each reader is a thread of its own (line 619) and is scheduled again and
\* again; sleep, close and a failing open or read all return
SpecReader ==
  InitReader /\ [][NextReader]_vars /\ \A port \in SERIAL_PORTS : WF_vars(ReaderStep(port))

(***************************************************************************)
(* Framing (lines 218-235): the bytes of a port, read line by line; a line  *)
(* that is a header is followed by a payload of the announced length.       *)
(* A text is a sequence of one-character strings, "\n" the line feed.       *)
(***************************************************************************)
MaxSends == 3     \* transmissions (frames and stray lines) of all terminals

cMLEN == <<"m","l","e","n","=">>
LF == "\n"
AllDigits(s) == s # <<>> /\ \A i \in 1..Len(s) : s[i] \in Digits

\* a slip: HEADER_PATTERN.search(hdr), the leftmost mlen=<digits> that
\* reaches the end of the line
HeaderSearch(hdr) ==
  LET at == { k \in 0..(Len(hdr) - Len(cMLEN)) :
                /\ SubSeq(hdr, k + 1, k + Len(cMLEN)) = cMLEN
                /\ AllDigits(SubSeq(hdr, k + Len(cMLEN) + 1, Len(hdr))) }
  IN IF at = {} THEN <<>>
     ELSE << SubSeq(hdr, (CHOOSE k \in at : \A j \in at : k <= j) + Len(cMLEN) + 1,
                    Len(hdr)) >>

\* HEADER_PATTERN.match(hdr), lines 75 and 220: re.match anchors the pattern
\* mlen=(\d+)$ at the start of the line; the result is None or group(1)
HeaderMatch(hdr) ==
  IF StartsWith(hdr, cMLEN) /\ AllDigits(SubSeq(hdr, Len(cMLEN) + 1, Len(hdr)))
  THEN << SubSeq(hdr, Len(cMLEN) + 1, Len(hdr)) >>
  ELSE <<>>

RECURSIVE StripWs(_)
\* str.strip(), line 219
StripWs(t) ==
  IF t = <<>> THEN t
  ELSE IF Head(t) \in {" ", LF} THEN StripWs(Tail(t))
  ELSE IF t[Len(t)] \in {" ", LF} THEN StripWs(SubSeq(t, 1, Len(t) - 1))
  ELSE t

\* ser.readline(), line 219: through the first line feed, or what there is
\* when the timeout (line 215) ends the wait
ReadLineLen(b) ==
  LET ends == {i \in 1..Len(b) : b[i] = LF}
  IN IF ends = {} THEN Len(b) ELSE CHOOSE i \in ends : \A j \in ends : i <= j

\* ser.read(length), line 224: at most length bytes
ReadLen(b, length) == IF length <= Len(b) THEN length ELSE Len(b)

DigitChar(v) == <<"0","1","2","3","4","5","6","7","8","9">>[v + 1]
RECURSIVE ToDigits(_)
\* the decimal text of a length
ToDigits(n) ==
  IF n < 10 THEN << DigitChar(n) >>
  ELSE ToDigits(n \div 10) \o << DigitChar(n % 10) >>

\* the payloads the terminals send
tStart == <<"{","\"","C","M","D","\"",":","\"","S","t","a","r","t","T","r","a","n","s","a","c","t","i","o","n","\"","}">>
tEnd == <<"{","\"","C","M","D","\"",":","\"","E","n","d","T","r","a","n","s","a","c","t","i","o","n","\"","}">>
tEmpty == <<"{","}">>
tArray == <<"[","]">>
tNumber == <<"7">>
tString == <<"\"","a","\"">>
tTrue == <<"t","r","u","e">>
tNull == <<"n","u","l","l">>
tCut == <<"{","\"","C","M","D","\"",":">>

\* a JSON value that is not an object, as json.loads returns it
NonObject(kind) ==
  [ json |-> kind, CMD |-> <<>>, metaData |-> <<>>, cartChangeTrail |-> <<>>,
    paymentSummary |-> <<>>, transactionSummary |-> <<>> ]

\* json.loads(txt), line 231, on these payloads; any other text (a payload
\* cut short) raises JSONDecodeError
JsonLoads(txt) ==
  IF txt = tStart THEN [ok |-> TRUE, rec |-> recStart]
  ELSE IF txt = tEnd THEN [ok |-> TRUE, rec |-> recEnd]
  ELSE IF txt = tEmpty THEN [ok |-> TRUE, rec |-> NoRec]
  ELSE IF txt = tArray THEN [ok |-> TRUE, rec |-> NonObject("array")]
  ELSE IF txt = tNumber THEN [ok |-> TRUE, rec |-> NonObject("number")]
  ELSE IF txt = tString THEN [ok |-> TRUE, rec |-> NonObject("string")]
  ELSE IF txt = tTrue THEN [ok |-> TRUE, rec |-> NonObject("boolean")]
  ELSE IF txt = tNull THEN [ok |-> TRUE, rec |-> NonObject("null")]
  ELSE [ok |-> FALSE, rec |-> NoRec]

\* frames forwarded so far by the reader of a port
Forwarded(port) ==
  Len(processed[port])
  + Cardinality({k \in 1..Len(parser_queue) : parser_queue[k][1] = port})

\* one turn of the loop of lines 218-235
read_frame(port) ==
  /\ wire[port].bytes # <<>>
  /\ LET b == wire[port].bytes
         n == ReadLineLen(b)
         m == HeaderMatch(StripWs(SubSeq(b, 1, n)))
         rest == SubSeq(b, n + 1, Len(b))
     IN IF m = <<>>
        THEN /\ wire' = [wire EXCEPT ![port].bytes = rest]
             /\ UNCHANGED <<parser_queue, nframes>>
        ELSE LET length == IntOf(m[1])
                 k == ReadLen(rest, length)
                 txt == SubSeq(rest, 1, k)
                 js == JsonLoads(txt)
             IN /\ wire' = [wire EXCEPT ![port].bytes = SubSeq(rest, k + 1, Len(rest)),
                                        ![port].raw = Append(@, txt)]
                /\ IF js.ok
                   THEN /\ parser_queue' =
                             QueuePut(parser_queue, <<port, js.rec, Forwarded(port) + 1>>)
                        /\ nframes' = nframes + 1
                   ELSE UNCHANGED <<parser_queue, nframes>>
  /\ UNCHANGED <<processed, stream, tx_queue, asmVars, dispVars, clock, ser, avail>>

\* what a terminal transmits at a time: a header line (with or without
\* characters before mlen=) and its payload, or a line that is no header
Framed(pre, txt) ==
  [ bytes |-> pre \o cMLEN \o ToDigits(Len(txt)) \o <<LF>> \o txt, framed |-> <<txt>> ]

StrayLine == [ bytes |-> <<"o","k",LF>>, framed |-> <<>> ]

UnitsOf(port) ==
  IF port = "COM3"
  THEN { Framed(<<>>, tStart), Framed(<<"#"," ">>, tStart), Framed(<<>>, tEnd),
         Framed(<<>>, tArray), Framed(<<>>, tNull), Framed(<<>>, tCut), StrayLine }
  ELSE { Framed(<<>>, tStart), Framed(<<>>, tEnd) }

Send(port) ==
  /\ wire["COM3"].n + wire["COM4"].n < MaxSends
  /\ \E u \in UnitsOf(port) :
       wire' = [wire EXCEPT ![port].bytes = @ \o u.bytes,
                            ![port].sent = @ \o u.framed,
                            ![port].n = @ + 1]
  /\ UNCHANGED <<pipeVars, ser, avail>>

NextFraming ==
  \/ \E port \in SERIAL_PORTS : Send(port) /\ UNCHANGED <<tenderVars, parser, note, tokenVars>>
  \/ \E port \in SERIAL_PORTS :
       read_frame(port) /\ UNCHANGED <<tenderVars, parser, note, tokenVars>>
  \/ parser_worker /\ UNCHANGED <<tenderVars, parser, note, tokenVars, portVars>>
  \/ parser_get_raises /\ UNCHANGED <<tenderVars, note, tokenVars, portVars>>

SpecFraming == Init /\ [][NextFraming]_vars

(***************************************************************************)
(* Properties                                                               *)
(***************************************************************************)
Pending(p) == Cardinality({k \in 1..Len(parser_queue) : parser_queue[k][1] = p})

\* C1: on a port whose stream is a series of well-formed brackets, under any
\* interleaving with the other port, the assembler emits exactly one
\* transaction per closed bracket (never more than were closed, and all of
\* them once the port's frames are processed), and the items, voids and
\* payments of the transaction are the bracket's entries in arrival order.
C1_OneTransactionPerBracket ==
  \A p \in SERIAL_PORTS :
    stream[p].wf =>
      /\ emitted[p].last = emitted[p].expect
      /\ emitted[p].n + Len(stream[p].closed) = stream[p].n
      /\ (Pending(p) = 0 => stream[p].closed = <<>>)

\* a bracket of two cartChangeTrail frames on COM3, answered while COM4 is
\* sending too
C1_Witness ==
  /\ stream["COM3"].wf
  /\ stream["COM4"].sent >= 1
  /\ emitted["COM3"].n = 1
  /\ emitted["COM3"].last =
       << [ items |-> << Line(nMilk, 1890, 1, "add"), Line(nPromoX, 0, 1, "add") >>,
            voids |-> << Line(nGum, 500, 2, "void") >>,
            payments |-> <<>> ] >>

NoRepeat(s) == \A i, j \in 1..Len(s) : s[i] = s[j] => i = j

\* C2: a transaction taken from tx_queue is POSTed at most once and has at
\* most one recorded outcome; once taken it is never in the queue again,
\* whatever the delivery's result.
C2_AtMostOneAttempt ==
  /\ NoRepeat([i \in 1..Len(posted) |-> posted[i].id])
  /\ NoRepeat([i \in 1..Len(outcomes) |-> outcomes[i].id])
  /\ NoRepeat(taken)
  /\ \A k \in 1..Len(tx_queue) : \A i \in 1..Len(taken) : tx_queue[k].id # taken[i]

\* a delivery that failed with a non-2xx answer has been recorded
C2_Witness ==
  \E i \in 1..Len(outcomes) :
    /\ ~outcomes[i].success
    /\ outcomes[i].status_code = 500
    /\ \E j \in 1..Len(posted) : posted[j].id = outcomes[i].id

\* C3: the parser takes the frames of each port in the order the port's
\* reader enqueued them (serial numbers 1, 2, ...), and the dispatcher takes
\* the transactions in the order the assembler emitted them (ids 1, 2, ...).
C3_FifoOrder ==
  /\ \A p \in SERIAL_PORTS : \A i \in 1..Len(processed[p]) : processed[p][i] = i
  /\ \A i \in 1..Len(taken) : taken[i] = i

\* two transactions delivered, frames of both ports processed
C3_Witness ==
  /\ Len(taken) = 2
  /\ Len(processed["COM3"]) >= 2
  /\ Len(processed["COM4"]) >= 2

UrlOfModel(m) ==
  IF m = "CashOperation" THEN CASH_URL
  ELSE IF m = "Refund" THEN REFUND_URL
  ELSE TXN_URL

\* C4: a transaction with no items and no payments is POSTed as a
\* CashOperation to the cash-operations endpoint, whatever its type and
\* voids; and every POST goes to the endpoint of its payload's model.
C4_CashOperationRouting ==
  \A i \in 1..Len(posted) :
    /\ (posted[i].tx.items = <<>> /\ posted[i].tx.payments = <<>>) =>
         /\ posted[i].payload.model = "CashOperation"
         /\ posted[i].url = CASH_URL
    /\ posted[i].url = UrlOfModel(posted[i].payload.model)

\* a refund-typed transaction with voids only went to the cash endpoint
C4_Witness ==
  \E i \in 1..Len(posted) :
    /\ posted[i].tx.items = <<>> /\ posted[i].tx.payments = <<>>
    /\ posted[i].tx.voids # <<>>
    /\ posted[i].tx.type = <<"R","E","F","U","N","D">>
    /\ posted[i].url = CASH_URL

IsRefundType(tx) == Upper(tx.type) = <<"R","E","F","U","N","D">>

\* C5 as stated: every transaction whose type is "refund" in any letter case
\* is POSTed as a Refund to the refunds endpoint.
C5_Original ==
  \A i \in 1..Len(posted) :
    IsRefundType(posted[i].tx) =>
      /\ posted[i].payload.model = "Refund"
      /\ posted[i].url = REFUND_URL

\* C5 (amended): every transaction whose type is "refund" in any letter case
\* and that has at least one item or payment is POSTed as a Refund to the
\* refunds endpoint.
C5_RefundRouting ==
  \A i \in 1..Len(posted) :
    ( /\ IsRefundType(posted[i].tx)
      /\ (posted[i].tx.items # <<>> \/ posted[i].tx.payments # <<>>) ) =>
      /\ posted[i].payload.model = "Refund"
      /\ posted[i].url = REFUND_URL

\* a transaction typed REFUND with an item was POSTed as a Refund
C5_Witness ==
  \E i \in 1..Len(posted) :
    /\ posted[i].tx.type = <<"R","E","F","U","N","D">>
    /\ posted[i].tx.items # <<>>
    /\ posted[i].payload.model = "Refund"
    /\ posted[i].url = REFUND_URL

TenderNames == {"Cash", "CreditCard", "DebitCard", "AccountPayment", "Other"}

\* C6: map_tender gives every description exactly one of the five tender
\* types, by the first rule that matches on the upper-cased text: contains
\* CASH; contains VISA, MASTERCARD, AMEX or DISCOVER; contains DEBIT; starts
\* with ACCT# or ACCOUNT; otherwise Other.
C6_TenderPrecedence ==
  tender # <<>> =>
    LET d == Upper(desc)
        cash == Contains(d, sCASH)
        card == \/ Contains(d, sVISA) \/ Contains(d, sMASTERCARD)
                \/ Contains(d, sAMEX) \/ Contains(d, sDISCOVER)
        debit == Contains(d, sDEBIT)
        acct == StartsWith(d, sACCTHASH) \/ StartsWith(d, sACCOUNT)
    IN /\ tender[1] \in TenderNames
       /\ (tender[1] = "Cash") <=> cash
       /\ (tender[1] = "CreditCard") <=> (~cash /\ card)
       /\ (tender[1] = "DebitCard") <=> (~cash /\ ~card /\ debit)
       /\ (tender[1] = "AccountPayment") <=> (~cash /\ ~card /\ ~debit /\ acct)
       /\ (tender[1] = "Other") <=> (~cash /\ ~card /\ ~debit /\ ~acct)
       /\ (desc = <<"V","i","s","a","C","a","s","H">>) => tender[1] = "Cash"
       /\ (desc = <<" ","a","c","c","o","u","n","t">>) => tender[1] = "Other"
       /\ (desc = <<"a","c","c","o","u","n","t"," ">>) => tender[1] = "AccountPayment"

\* a description with both VISA and CASH was classified Cash
C6_Witness ==
  /\ tender = <<"Cash">>
  /\ desc = <<"V","i","s","a","C","a","s","H">>

\* the sale/void payloads POSTed that carry a payment
TxnWithPayment(i) ==
  /\ posted[i].payload.model = "Transaction"
  /\ posted[i].payload.Order[1].Payment # <<>>

SuchItems(tx) ==
  SelectSeqBy(tx.items,
    {k \in 1..Len(tx.items) :
       tx.items[k].event # "void" /\ Contains(tx.items[k].name, sPROMO)})

\* what C8 says of a payload: its Discount entries named "PROMO" are the
\* promotion items, one each and in order, valued round(|price x quantity|, 2),
\* and its OrderItem list holds none of them
PromotionsExtracted(i) ==
  LET such == SuchItems(posted[i].tx)
      order == posted[i].payload.Order
      disc == IF order = <<>> THEN <<>>
              ELSE SelectSeqBy(order[1].Discount,
                     {k \in 1..Len(order[1].Discount) :
                        Contains(order[1].Discount[k].Description, sPROMO)})
      sold == IF order = <<>> THEN <<>> ELSE order[1].OrderItem
  IN /\ Len(disc) = Len(such)
     /\ \A k \in 1..Len(such) :
          /\ disc[k].Description = such[k].name
          /\ disc[k].Value = 10 * round2(Abs(such[k].price * such[k].quantity))
     /\ \A k \in 1..Len(sold) :
          Contains(sold[k].name, sPROMO) => sold[k].ItemState = "Voided"

OrderStateOf(payload) ==
  IF payload.Order = <<>> THEN "none" ELSE payload.Order[1].OrderState

\* C9 as stated: the payload sent for a transaction with voids and nothing
\* but voids has OrderState "Voided" and TransactionType "Update"; with voids
\* and some other entry, "Closed" and "Update"; with no voids, "New" and
\* "Closed" (a payload without an order block, which has no state, is let
\* through in this last case).
C9_FullVoidDetection ==
  \A i \in 1..Len(posted) :
    LET tx == posted[i].tx
        merged == tx.items \o tx.voids
        all_void == \A k \in 1..Len(merged) : merged[k].event = "void"
        state == OrderStateOf(posted[i].payload)
        type == posted[i].payload.TransactionType
    IN /\ (tx.voids # <<>> /\ all_void) => (state = "Voided" /\ type = "Update")
       /\ (tx.voids # <<>> /\ ~all_void) => (state = "Closed" /\ type = "Update")
       /\ (tx.voids = <<>>) => (state \in {"Closed", "none"} /\ type = "New")

\* a sale whose only line was voided and that took no payment was sent as a
\* CashOperation of type "New"
C9_Witness ==
  \E i \in 1..Len(posted) :
    /\ posted[i].tx.type = <<"S","a","l","e">>
    /\ posted[i].tx.items = <<>> /\ posted[i].tx.payments = <<>>
    /\ posted[i].tx.voids = << Line(nGum, 500, 2, "void") >>
    /\ posted[i].payload.model = "CashOperation"
    /\ posted[i].payload.TransactionType = "New"

\* the transaction of the scenario, with a type other than refund
Is0877(tx) ==
  /\ tx.items = << Line(nBanana, 890, 2, "add"), Line(nCasino, 1730, 1, "add"),
                   Line(nPromoEvd, 780, 1, "add") >>
  /\ tx.voids = <<>>
  /\ tx.payments = << Pay(5000, dCash) >>
  /\ tx.summary_map = << <<kSUBTOTAL, 3510>>, <<kTAX, 110>>, <<kTOTALDUE, 2840>> >>
  /\ ~IsRefundType(tx)

\* C10: the transaction of register receipt 0877 (two items, one promotion,
\* SUBTOTAL 3.51, TAX 0.11, TOTAL DUE 2.84, 5.00 in cash) is sent as a
\* Transaction payload with ItemPrice 3.51, one Tax entry of 0.11, one
\* Discount entry (0.78, "PROMO EVD Bananas"), one Payment entry (Accepted,
\* 5.00, change 2.16, Cash), OrderItemCount 2 and OrderState "Closed".
C10_Scenario0877 ==
  \A i \in 1..Len(posted) :
    Is0877(posted[i].tx) =>
      /\ posted[i].payload.model = "Transaction"
      /\ posted[i].url = TXN_URL
      /\ LET o == posted[i].payload.Order[1]
         IN /\ o.ItemPrice = 3510
            /\ o.Tax = << [amount |-> 110, Description |-> "Sales Tax"] >>
            /\ o.Discount = << [ Value |-> 780, Description |-> nPromoEvd,
                                 Category |-> "Promotion" ] >>
            /\ o.Payment = << [ Status |-> "Accepted", Amount |-> 5000,
                                Change |-> 2160, TenderType |-> "Cash" ] >>
            /\ o.OrderItemCount = 2
            /\ Len(o.OrderItem) = 2
            /\ o.OrderState = "Closed"

\* the scenario's transaction, typed Sale, has been POSTed
C10_Witness ==
  \E i \in 1..Len(posted) :
    /\ Is0877(posted[i].tx)
    /\ posted[i].tx.type = <<"S","a","l","e">>
    /\ posted[i].payload.Order[1].Payment[1].Change = 2160

\* the transactions the assembler has emitted that are still on record
AllTx ==
  {tx_queue[k].tx : k \in 1..Len(tx_queue)} \cup {posted[i].tx : i \in 1..Len(posted)}

\* C11: two transactions with the same store, terminal, sequence and UTC
\* timestamp have the same guid, whatever their port, their lists and the
\* moment they were assembled.
C11_IdempotentGuid ==
  \A a, b \in AllTx :
    ( /\ a.store = b.store /\ a.terminal = b.terminal
      /\ a.seq = b.seq /\ a.ts_utc = b.ts_utc ) => a.guid = b.guid

\* one transaction from each port, assembled at different moments and with
\* different items, same identity fields and same guid
C11_Witness ==
  /\ emitted["COM3"].n = 1 /\ emitted["COM4"].n = 1
  /\ \E a, b \in AllTx :
       /\ a.items # b.items
       /\ a.store = b.store /\ a.terminal = b.terminal
       /\ a.seq = b.seq /\ a.ts_utc = b.ts_utc
       /\ a.guid = b.guid

\* round_half_up(m, 2) of an amount in mills, in mills
HalfUp(m) == 10 * quantize(m)

\* the money fields of a sale/void payload against the amounts they come from
TxnMoneyRounded(tx, o) ==
  LET merged == tx.items \o tx.voids
      promos == SelectSeqBy(merged, {k \in 1..Len(merged) : IsPromo(merged[k])})
      lines == SelectSeqBy(merged, {k \in 1..Len(merged) : ~IsPromo(merged[k])})
      pays == SelectSeqBy(tx.payments,
                {k \in 1..Len(tx.payments) : HalfUp(tx.payments[k].amount) # 0})
  IN /\ o.ItemPrice = HalfUp(DictGet(tx.summary_map, kSUBTOTAL, 0))
     /\ \A k \in 1..Len(o.Tax) : o.Tax[k].amount = HalfUp(FirstTax(tx.summary_map))
     /\ Len(o.Discount) = Len(promos)
     /\ \A k \in 1..Len(promos) :
          o.Discount[k].Value = HalfUp(Abs(promos[k].price * promos[k].quantity))
     /\ Len(o.OrderItem) = Len(lines)
     /\ \A k \in 1..Len(lines) : o.OrderItem[k].ItemPrice = HalfUp(lines[k].price)
     /\ Len(o.Payment) = Len(pays)
     /\ \A k \in 1..Len(pays) :
          /\ o.Payment[k].Amount = HalfUp(pays[k].amount)
          /\ o.Payment[k].Change % 10 = 0

\* the money fields of a refund payload against the amounts they come from
RefundMoneyRounded(tx, payload) ==
  LET o == payload.Order[1]
      pays == SelectSeqBy(tx.payments,
                {k \in 1..Len(tx.payments) : tx.payments[k].amount # 0})
  IN /\ payload.RefundTotal =
          << HalfUp(SumSeq([k \in 1..Len(tx.payments) |-> tx.payments[k].amount])) >>
     /\ o.ItemPrice % 10 = 0
     /\ Len(o.OrderItem) = Len(tx.items)
     /\ \A k \in 1..Len(tx.items) : o.OrderItem[k].ItemPrice = HalfUp(tx.items[k].price)
     /\ Len(o.Payment) = Len(pays)
     /\ \A k \in 1..Len(pays) : o.Payment[k].Amount = HalfUp(pays[k].amount)

\* C12 as stated: every monetary field of every payload POSTed is the
\* half-up rounding to two fractional digits of the amount it comes from.
C12_MoneyHalfUp ==
  \A i \in 1..Len(posted) :
    LET tx == posted[i].tx
        payload == posted[i].payload
    IN CASE payload.model = "Transaction" -> TxnMoneyRounded(tx, payload.Order[1])
         [] payload.model = "Refund" -> RefundMoneyRounded(tx, payload)
         [] OTHER -> payload.Amount = <<0>>

\* a refund paid back 5.004 on a card was POSTed with Amount and RefundTotal
\* 5.004
C12_Witness ==
  \E i \in 1..Len(posted) :
    /\ posted[i].payload.model = "Refund"
    /\ posted[i].tx.payments = << Pay(5004, dVisa) >>
    /\ posted[i].payload.RefundTotal = <<5004>>
    /\ posted[i].payload.Order[1].Payment[1].Amount = 5004

\* the part of C12 that the sale/void payload does meet: all its money fields
\* but Discount Value are half-up roundings; Discount Value is a rounding to
\* the cent that sends a tie to the even cent
C12_TxnFieldsRounded ==
  \A i \in 1..Len(posted) :
    posted[i].payload.model = "Transaction" =>
      LET o == posted[i].payload.Order[1]
      IN /\ o.ItemPrice % 10 = 0
         /\ \A k \in 1..Len(o.Tax) : o.Tax[k].amount % 10 = 0
         /\ \A k \in 1..Len(o.Discount) : o.Discount[k].Value % 10 = 0
         /\ \A k \in 1..Len(o.OrderItem) : o.OrderItem[k].ItemPrice % 10 = 0
         /\ \A k \in 1..Len(o.Payment) :
              o.Payment[k].Amount % 10 = 0 /\ o.Payment[k].Change % 10 = 0

\* the assembler has done on port p what the terminal's frames ask for: the
\* transactions emitted are those of the brackets closed, in order, and once
\* the port's records are processed the buffer is the open bracket's
Faithful(p) ==
  LET n == note[p]
  IN /\ Len(n.made) <= Len(n.want)
     /\ \A k \in 1..Len(n.made) : n.made[k] = MakeTx(n.want[k])
     /\ (parser = "running" /\ Pending(p) = 0) =>
          /\ Len(n.made) = Len(n.want)
          /\ buffers[p] = IF n.open THEN <<n.cur>> ELSE <<>>

\* C13 as stated: whatever records arrive, among them records that do not
\* decode (which are dropped), the records of every port keep being
\* processed and every bracket closed gets its transaction.
C13_MalformedDropped ==
  \A p \in SERIAL_PORTS :
    []<>(Pending(p) = 0 /\ Len(note[p].made) = Len(note[p].want))

\* the parser thread has ended on a record that does not decode, with a
\* bracket of the other port closed and its records left in the queue
C13_Witness ==
  /\ parser = "dead"
  /\ Len(note["COM4"].want) = 1 /\ note["COM4"].made = <<>>
  /\ Pending("COM4") = 2

\* C17: on a port where brackets were started while one was open (and no
\* frame came outside a bracket), no transaction was emitted for an
\* abandoned bracket and each transaction emitted holds the meta, items,
\* voids, payments and summary of its own bracket only; after the new start
\* was processed the buffer is the new bracket's.
C17_RestartReplacesBuffer ==
  \A p \in SERIAL_PORTS :
    (note[p].restarts > 0 /\ note[p].strays = {}) => Faithful(p)

\* a bracket with meta and an item was abandoned, the next one took a
\* payment: its transaction has the payment, no item and no type
C17_Witness ==
  LET n == note["COM3"]
  IN /\ n.restarts = 1 /\ n.strays = {}
     /\ Len(n.lost) = 1
     /\ n.lost[1].items = <<lnMilk>>
     /\ Len(n.made) = 1
     /\ n.made[1].items = <<>>
     /\ n.made[1].payments = <<pyCash>>

\* C18: on a port where records other than StartTransaction came while no
\* bracket was open (and no bracket was restarted), these records left the
\* port Idle, produced no transaction, and left nothing in the transactions
\* of the brackets that followed.
C18_IdleDrops ==
  \A p \in SERIAL_PORTS :
    (note[p].strays # {} /\ note[p].restarts = 0) =>
      /\ Faithful(p)
      /\ (parser = "running" /\ Pending(p) = 0 /\ ~note[p].open) => buffers[p] = <<>>

\* an EndTransaction and another record came while the port was Idle and
\* were processed: the port is Idle, nothing was emitted
C18_Witness ==
  LET n == note["COM3"]
  IN /\ n.strays = {"end", "other"}
     /\ n.sent = 2
     /\ Pending("COM3") = 0
     /\ buffers["COM3"] = <<>>
     /\ tx_queue = <<>>

OutcomeOf(k) == { i \in 1..Len(outcomes) : outcomes[i].id = k }
PostOf(k) == { j \in 1..Len(posted) : posted[j].id = k }
LastTaken == taken[Len(taken)]

\* what line 591's answer must be recorded as
RecordedAs(o, r) ==
  IF r.exc
  THEN ~o.success /\ o.status_code = 0 /\ o.body = "str(e)"
  ELSE /\ o.status_code = r.status
       /\ o.body = "resp.text"
       /\ o.success = (200 <= r.status /\ r.status <= 299)

\* C14: every transaction POSTed to the data API has a recorded outcome:
\* success exactly when the answer's status is in 200..299, failure with the
\* actual status for another answer, failure with status 0 and the exception
\* text as body when the POST raised; and after it the dispatcher is running,
\* ready for the next transaction.
C14_DeliveryFaults ==
  \A j \in 1..Len(posted) :
    /\ \E i \in OutcomeOf(posted[j].id) : RecordedAs(outcomes[i], posted[j].answer)
    /\ posted[j].id = LastTaken => dispatcher = "running"

\* a POST that raised was recorded as a failure with status 0 and the
\* exception text, and the next transaction was delivered
C14_Witness ==
  /\ Len(outcomes) = 2
  /\ \E j \in PostOf(outcomes[1].id) : posted[j].answer.exc
  /\ ~outcomes[1].success /\ outcomes[1].status_code = 0 /\ outcomes[1].body = "str(e)"
  /\ outcomes[2].success /\ outcomes[2].status_code = 202

\* the outcomes that are recorded are those of the answers
C14_RecordedOutcomes ==
  \A i \in 1..Len(outcomes) : \A j \in PostOf(outcomes[i].id) :
    RecordedAs(outcomes[i], posted[j].answer)

\* C15: a transaction for which the token request failed has no POST to the
\* data API and a recorded outcome of failure with status 0; the transaction
\* taken after it makes a token request of its own.
C15_TokenFailure ==
  \A c \in 1..Len(idcalls) :
    ~idcalls[c].ok =>
      /\ PostOf(idcalls[c].id) = {}
      /\ \E i \in OutcomeOf(idcalls[c].id) :
            ~outcomes[i].success /\ outcomes[i].status_code = 0
      /\ \A t \in 1..(Len(taken) - 1) :
            taken[t] = idcalls[c].id =>
              \E d \in 1..Len(idcalls) : idcalls[d].id = taken[t + 1]

\* the token request of transaction 1 failed: no POST, failure with status 0;
\* transaction 2 asked for a token again and was delivered
C15_Witness ==
  /\ Len(idcalls) = 2 /\ Len(outcomes) = 2
  /\ idcalls[1] = [id |-> 1, ok |-> FALSE]
  /\ PostOf(1) = {}
  /\ outcomes[1].id = 1 /\ ~outcomes[1].success /\ outcomes[1].status_code = 0
  /\ idcalls[2] = [id |-> 2, ok |-> TRUE]
  /\ PostOf(2) # {}
  /\ outcomes[2].id = 2 /\ outcomes[2].success /\ outcomes[2].status_code = 202

Queued(k) == \E i \in 1..Len(tx_queue) : tx_queue[i].id = k

\* C20: every transaction in tx_queue eventually has its outcome recorded,
\* with the dispatcher running for the next one.
C20_OutcomeRecorded ==
  \A k \in 1..MaxDeliveries :
    Queued(k) ~> (OutcomeOf(k) # {} /\ dispatcher = "running")

\* a transaction of a bracket without metaData was taken, POSTed, and the
\* dispatcher stopped without an outcome for it
C20_Witness ==
  /\ dispatcher = "dead"
  /\ taken # <<>>
  /\ PostOf(LastTaken) # {}
  /\ \E j \in PostOf(LastTaken) : posted[j].tx.ts_utc = <<>> /\ posted[j].tx.seq = <<>>
  /\ OutcomeOf(LastTaken) = {}

RECURSIVE Keep(_, _, _)
\* the entries of s whose index is in K, in the order of s
Keep(s, K, i) ==
  IF i > Len(s) THEN <<>>
  ELSE IF i \in K THEN <<s[i]>> \o Keep(s, K, i + 1)
  ELSE Keep(s, K, i + 1)

\* the Payment list against the payments `kept`, in source order: the amount
\* rounded to cents, the change on the first entry only, the status by sign
PaymentsAre(pay, kept, change) ==
  /\ Len(pay) = Len(kept)
  /\ \A k \in 1..Len(pay) :
       /\ pay[k].Amount = 10 * quantize(kept[k].amount)
       /\ pay[k].TenderType = map_tender(kept[k].tenderType)
       /\ pay[k].Change = (IF k = 1 THEN change ELSE 0)
       /\ pay[k].Status = (IF kept[k].amount >= 0 THEN "Accepted" ELSE "Denied")

ChangeOf(tx) ==
  10 * quantize(Paid(tx.payments)) - 10 * quantize(TotalDue(tx.summary_map))

\* C21 as stated: the Payment list of a sale/void payload has one entry per
\* payment whose amount is not zero, in source order, the change on the first
\* entry only, Accepted for a non-negative amount and Denied for a negative one.
C21_Original ==
  \A i \in 1..Len(posted) :
    posted[i].payload.model = "Transaction" =>
      LET tx == posted[i].tx
          K == {k \in 1..Len(tx.payments) : tx.payments[k].amount # 0}
      IN PaymentsAre(posted[i].payload.Order[1].Payment,
                     Keep(tx.payments, K, 1), ChangeOf(tx))

\* C21 (amended): the Payment list has one entry per payment whose amount,
\* rounded half-up to cents, is not zero, in source order; the change is on
\* the first entry only; Accepted for a non-negative amount, Denied otherwise.
C21_PaymentList ==
  \A i \in 1..Len(posted) :
    posted[i].payload.model = "Transaction" =>
      LET tx == posted[i].tx
          K == {k \in 1..Len(tx.payments) : quantize(tx.payments[k].amount) # 0}
      IN PaymentsAre(posted[i].payload.Order[1].Payment,
                     Keep(tx.payments, K, 1), ChangeOf(tx))

\* payments of 0.004, 50.00, -0.004 and -20.00 were sent as two entries:
\* 50.00 Accepted with the change, -20.00 Denied with change 0
C21_Witness ==
  \E i \in 1..Len(posted) :
    /\ posted[i].tx.payments =
         << Pay(4, dCash), Pay(5000, dVisa), Pay(-4, dCash), Pay(-2000, dDebit) >>
    /\ LET pay == posted[i].payload.Order[1].Payment
       IN /\ Len(pay) = 2
          /\ pay[1].Amount = 5000 /\ pay[1].Status = "Accepted" /\ pay[1].Change = 2000
          /\ pay[2].Amount = -2000 /\ pay[2].Status = "Denied" /\ pay[2].Change = 0

\* the value of the first summary_map key that starts with TAX, 0 if none
TaxAmount(sm) ==
  LET hits == {k \in 1..Len(sm) : StartsWith(sm[k][1], kTAX)}
  IN IF hits = {} THEN 0 ELSE sm[CHOOSE k \in hits : \A j \in hits : k <= j][2]

HasKey(sm, key) == \E k \in 1..Len(sm) : sm[k][1] = key

\* C22: in a sale/void payload the Tax list is empty exactly when the tax
\* amount is zero, and otherwise is one entry with that amount and the
\* description "Sales Tax", for negative amounts too; and the total due (seen
\* in the change of the first payment) is summary_map[TOTAL DUE], or
\* subtotal + tax when that key is absent.
C22_TaxAndTotalDue ==
  \A i \in 1..Len(posted) :
    posted[i].payload.model = "Transaction" =>
      LET sm == posted[i].tx.summary_map
          tax == TaxAmount(sm)
          due == IF HasKey(sm, kTOTALDUE) THEN DictGet(sm, kTOTALDUE, 0)
                 ELSE DictGet(sm, kSUBTOTAL, 0) + tax
          order == posted[i].payload.Order[1]
      IN /\ (order.Tax = <<>>) <=> (tax = 0)
         /\ tax # 0 =>
              order.Tax = << [amount |-> HalfUp(tax), Description |-> "Sales Tax"] >>
         /\ order.Payment # <<>> =>
              order.Payment[1].Change = HalfUp(Paid(posted[i].tx.payments)) - HalfUp(due)

\* a sale whose summary has TAX -1.10 was sent with an empty Tax list
C22_Witness ==
  \E i \in 1..Len(posted) :
    /\ posted[i].payload.model = "Transaction"
    /\ TaxAmount(posted[i].tx.summary_map) = -110
    /\ posted[i].payload.Order[1].Tax = <<>>

\* what the code does: a Tax entry exactly for a positive tax of at least
\* half a cent; the total due as C22 says
C22_PositiveTaxOnly ==
  \A i \in 1..Len(posted) :
    posted[i].payload.model = "Transaction" =>
      LET sm == posted[i].tx.summary_map
          tax == TaxAmount(sm)
          due == IF HasKey(sm, kTOTALDUE) THEN DictGet(sm, kTOTALDUE, 0)
                 ELSE DictGet(sm, kSUBTOTAL, 0) + tax
          order == posted[i].payload.Order[1]
      IN /\ order.Tax = IF HalfUp(tax) > 0
                        THEN << [amount |-> HalfUp(tax), Description |-> "Sales Tax"] >>
                        ELSE <<>>
         /\ order.Payment # <<>> =>
              order.Payment[1].Change = HalfUp(Paid(posted[i].tx.payments)) - HalfUp(due)

(***************************************************************************)
(* Framing and non-object payloads (SpecFraming)                            *)
(***************************************************************************)
\* C23: a payload that is valid JSON but not an object is logged and goes no
\* further: no such value is ever in parser_queue, and the parser thread
\* keeps running for the frames of every port.
C23_NonObjectStopsAtReader ==
  /\ \A k \in 1..Len(parser_queue) : ~RecGetRaises(parser_queue[k][2])
  /\ parser = "running"

\* the array [] framed on COM3 was logged and handed to the parser, which
\* ended on it; the StartTransaction of COM4 read afterwards stays in
\* parser_queue
C23_Witness ==
  /\ parser = "dead"
  /\ wire["COM3"].raw = <<tArray>>
  /\ wire["COM4"].raw = <<tStart>>
  /\ wire["COM3"].bytes = <<>> /\ wire["COM4"].bytes = <<>>
  /\ Len(parser_queue) = 1 /\ parser_queue[1][1] = "COM4"
  /\ buffers["COM4"] = <<>>

\* C24: once the bytes of a port are all read, the payloads the reader took
\* (and logged) are exactly the payloads the terminal framed, in order: each
\* line ending with mlen=<digits>, with or without characters before mlen=,
\* was taken as a header with exactly <digits> bytes after it, and no other
\* line consumed any payload byte.
C24_Framing ==
  \A p \in SERIAL_PORTS : wire[p].bytes = <<>> => wire[p].raw = wire[p].sent

\* the frame "# mlen=26" + StartTransaction was sent on COM3 and read to the
\* end without any payload taken
C24_Witness ==
  /\ wire["COM3"].sent = <<tStart>>
  /\ wire["COM3"].n = 1
  /\ wire["COM3"].bytes = <<>>
  /\ wire["COM3"].raw = <<>>

(***************************************************************************)
(* The token cache (SpecDelivery)                                           *)
(***************************************************************************)
\* a step of the dispatcher that reached fetch_token
FetchTokenStep ==
  /\ Len(taken') = Len(taken) + 1
  /\ (posted' # posted \/ idcalls' # idcalls)

C26_Immutable ==
  [][ /\ \A i \in 1..Len(tx_queue) : \A j \in 1..Len(tx_queue') :
           tx_queue'[j].id = tx_queue[i].id => tx_queue'[j].tx = tx_queue[i].tx
      /\ Len(posted') > Len(posted) =>
           posted'[Len(posted')].tx = Head(tx_queue).tx ]_vars

\* a transaction without items emitted for COM3 is still waiting, unchanged,
\* while the next bracket of COM3 has received an item
C26_Witness ==
  /\ Len(tx_queue) = 1
  /\ tx_queue[1].port = "COM3"
  /\ tx_queue[1].tx.items = <<>>
  /\ buffers["COM3"] # <<>>
  /\ buffers["COM3"][1].items # <<>>

(***************************************************************************)
(* The ports side by side (SpecAsm)                                         *)
(***************************************************************************)
\* C27: a step that processes no record of a port leaves that port's
\* assembler state (no buffer, or the buffer and its contents) as it was;
\* and every transaction emitted for a port is made of the records its own
\* terminal sent in the bracket, and of nothing else.
C27_PortIsolation ==
  /\ [][ \A p \in SERIAL_PORTS :
           processed'[p] = processed[p] => buffers'[p] = buffers[p] ]_vars
  /\ [](\A p \in SERIAL_PORTS :
          /\ Len(note[p].made) <= Len(note[p].want)
          /\ \A k \in 1..Len(note[p].made) : note[p].made[k] = MakeTx(note[p].want[k]))

\* the brackets of the two ports interleaved: COM4's transaction holds its
\* item and no payment, COM3's bracket is open with its payment and no item
C27_Witness ==
  /\ Len(note["COM4"].made) = 1
  /\ note["COM4"].made[1].items = <<lnMilk>>
  /\ note["COM4"].made[1].payments = <<>>
  /\ buffers["COM3"] # <<>>
  /\ buffers["COM3"][1].payments = <<pyCash>>
  /\ buffers["COM3"][1].items = <<>>
  /\ processed["COM3"] = <<1, 2>>
  /\ processed["COM4"] = <<1, 2, 3>>

\* C28: on a port where a bracket received a transactionSummary after an
\* earlier one, the buffer and the transactions emitted hold, as summary
\* list and summary map, the entries of the last summary record of the
\* bracket only, and as items, voids and payments all those received.
C28_SummaryReplaced ==
  \A p \in SERIAL_PORTS : note[p].resum > 0 => Faithful(p)

\* a bracket with an item, the summary [Subtotal, Tax] and then the summary
\* Total Due was emitted: its summary is Total Due alone
C28_Witness ==
  LET n == note["COM3"]
  IN /\ n.resum = 1
     /\ Len(n.made) = 1
     /\ n.made[1].items = <<lnMilk>>
     /\ n.made[1].transactionSummary = <<smDue>>
     /\ n.made[1].summary_map = << <<kTOTALDUE, 2000>> >>
====
